---- MODULE Spec2Model ----
(***************************************************************************)
(* A model of the synchronization and action-resolution engine of          *)
(* swpt_creditors_ui:                                                      *)
(*   - the log-stream collector (collectObjectUpdates),                    *)
(*   - the transfers bootstrap (ensureLoadedTransfers) and the user        *)
(*     provisioning (getOrCreateUserId),                                   *)
(*   - the interaction coordinator of AppState (attempt, interactionId),   *)
(*   - the action manager (createActionManager: store/save/remove).        *)
(* Each part has its own specification (SpecLog, SpecBoot, SpecApp,        *)
(* SpecMgr); the variables of the other parts stay at their initial value. *)
(***************************************************************************)
EXTENDS Integers, Sequences, FiniteSets, TLC

VARIABLES
    \* ---- log-stream collector ----
    latestEntryId,   \* the cursor handed to collectObjectUpdates
    logEntries,      \* the batch of log entries handed to it
    batchResult,     \* what the one-batch call returned (or threw)
    single           \* the one-entry-at-a-time replay of the same batch

VARIABLES
    \* ---- user provisioning and transfers bootstrap ----
    items,           \* per listed transfer: what the server and the local db hold
    db,              \* local storage: user id, wallet record's logStream, transfers
    boot,            \* the running ensureLoadedTransfers call (its locals)
    bootLog,         \* what the current bootstrap run has done so far
    prov             \* what the calls of getOrCreateUserId have done

VARIABLES
    \* ---- AppState: the interaction coordinator ----
    interactionId,   \* AppState.interactionId
    pageModel,       \* the type of the page model last set
    alerts,          \* how many alerts addAlert has added
    accountKnown,    \* accountsMap.getAccountFullData(accountUri) !== undefined
    ops,             \* the calls of attempt() so far, each with its position
    pushes,          \* calls of startInteraction()
    lastEffect       \* the latest pageModel.set or navigation made by an operation

VARIABLES
    \* ---- an action manager and the action record it edits ----
    stored,          \* the action record in the local storage
    mgr,             \* the closure variables of createActionManager
    promises,        \* the promises save() has made, in order; the last is updatePromise
    requests         \* the requests resolve/execute operations issued to the user context

VARIABLES
    \* ---- one action record and the operations that show and resolve it ----
    rec,             \* the action record in the local storage
    local,           \* the local data the action depends on
    run,             \* the running operations on the action, each with its position
    pageData,        \* the data put into the page model of the action
    trace            \* what the operations have called so far

logVars == <<latestEntryId, logEntries, batchResult, single>>

actVars == <<rec, local, run, pageData, trace>>

bootVars == <<items, db, boot, bootLog, prov>>

appVars == <<interactionId, pageModel, alerts, accountKnown, ops, pushes, lastEffect>>

mgrVars == <<stored, mgr, promises, requests>>

vars == <<latestEntryId, logEntries, batchResult, single,
          items, db, boot, bootLog, prov,
          interactionId, pageModel, alerts, accountKnown, ops, pushes, lastEffect,
          stored, mgr, promises, requests,
          rec, local, run, pageData, trace>>

----------------------------------------------------------------------------
(***************************************************************************)
(* AppState and the action manager before anything has been called.        *)
(***************************************************************************)
MaxOps == 2              \* calls of attempt() in one behaviour
MaxPushes == 1           \* calls of startInteraction() in one behaviour
MaxEdits == 2            \* edits of the action's form in one behaviour
MaxSaves == 2            \* calls of save() in one behaviour

NoEffect == [ kind |-> "none", by |-> "none", captured |-> 0, current |-> 0 ]

\* constructor(uc, actions): interactionId = 0, pageModel is an ActionsModel
AppIdle ==
    /\ interactionId = 0
    /\ pageModel = "ActionsModel"
    /\ alerts = 0
    /\ accountKnown = TRUE
    /\ ops = << >>
    /\ pushes = 0
    /\ lastEffect = NoEffect

\* No action record is being shown or resolved.
ActIdle ==
    /\ rec = "none"
    /\ local = "none"
    /\ run = "none"
    /\ pageData = "none"
    /\ trace = "none"

\* An action record as the storage holds it: the edit it carries, and whether
\* it still is the record this page wrote ("own"), was changed by somebody
\* else ("foreign"), or is deleted.
Record(value) == [ state |-> "own", value |-> value ]

\* createActionManager(action): updatePromise = Promise.resolve(),
\* latestValue = action, isDirty = false, isClosed = false
MgrIdle ==
    /\ stored = Record(0)
    /\ mgr = [ action |-> 0, latestValue |-> 0, isDirty |-> FALSE,
               isClosed |-> FALSE, form |-> 0, timers |-> 0 ]
    /\ promises = << >>
    /\ requests = << >>

----------------------------------------------------------------------------
(***************************************************************************)
(* The transfers list of the server and the local transfer records.        *)
(* A listed transfer is "plain" (not known locally, the server returns it, *)
(* concluded) or one of the other kinds below.                             *)
(***************************************************************************)
FetchBatchSize == 10     \* if (urisToFetch.length >= 10)
MaxAbnormal == 1         \* listed transfers that are not plain
MaxUserCalls == 2        \* calls of getOrCreateUserId in one behaviour

\* One transfer more than a batch: the list needs the in-loop fetch and the
\* final fetch.
TransferUris == 1..(FetchBatchSize + 1)

Kinds == { "plain",          \* no local record; server: 200, concluded
           "inProgress",     \* no local record; server: 200, not concluded
           "gone",           \* no local record; server: 404
           "failing",        \* no local record; server: another error
           "localPending",   \* local record without result; server: 200
           "localSucceeded", \* local record with a successful result
           "localFailed",    \* local record, committedAmount = 0, not aborted
           "localAborted" }  \* local record marked as aborted

\* What server.get(uri) gives for a transfer.
ServerStatus(uri) ==
    CASE items[uri] = "gone" -> "404"
      [] items[uri] = "failing" -> "error"
      [] OTHER -> "ok"

\* The transfer record made of the server's transfer, once stored.
ServerRecord(uri) ==
    IF items[uri] = "inProgress" THEN "pending" ELSE "succeeded"

\* The local transfer record before any bootstrap.
InitialRecord(kind) ==
    CASE kind = "localPending" -> "pending"
      [] kind = "localSucceeded" -> "succeeded"
      [] kind = "localFailed" -> "failed"
      [] kind = "localAborted" -> "aborted"
      [] OTHER -> "none"

NoRun == [ storedFetched |-> {}, storedLocal |-> {}, got404 |-> {},
           skipped |-> {}, complete |-> FALSE ]

BootStopped == [ pc |-> "idle", idx |-> 1, urisToFetch |-> << >>,
                 toStore |-> << >>, failedBatch |-> << >>, cause |-> "none" ]

NoCalls == [ calls |-> 0, serverReads |-> 0, stores |-> 0,
             hadUser |-> FALSE, wasBroken |-> FALSE, threw |-> FALSE ]

\* No user has been provisioned on this device yet.
BootIdle ==
    /\ items = [ u \in TransferUris |-> "plain" ]
    /\ db = [ userId |-> "none", isBroken |-> FALSE, loadedTransfers |-> FALSE,
              transferRecords |-> [ u \in TransferUris |-> "none" ] ]
    /\ boot = BootStopped
    /\ bootLog = NoRun
    /\ prov = NoCalls

\* Where in the list a transfer that is not plain may stand: first, last of
\* the full batch, or in the remainder that the final fetch handles (the loop
\* treats the places within a batch alike).
AbnormalPlaces == { 1, FetchBatchSize, FetchBatchSize + 1 }

\* The transfers lists with at most n transfers that are not plain.
RECURSIVE ItemsWith(_)
ItemsWith(n) ==
    IF n = 0 THEN { [ u \in TransferUris |-> "plain" ] }
    ELSE LET fewer == ItemsWith(n - 1)
         IN fewer \cup { [ f EXCEPT ![u] = k ] : f \in fewer, u \in AbnormalPlaces, k \in Kinds }

----------------------------------------------------------------------------
(***************************************************************************)
(* Bounds and input domains of the log-stream collector.                   *)
(***************************************************************************)
MaxLen == 3          \* longest batch of log entries
MaxCursor == 1       \* largest cursor a run starts from

Uris == {"u1", "u2"}
UpdateIds == {"1", "2"}    \* object update ids (opaque bigints)

NoValue == "undefined"

\* The data carried by a log entry: the object's content at that update.
DataFor(uri, updateId) == uri \o "@" \o updateId

\* A log entry as collectObjectUpdates destructures it.
LogEntry(entryId, uri, deleted, objectUpdateId) ==
    [ entryId        |-> entryId,
      uri            |-> uri,
      objectType     |-> IF uri = "u1" THEN "Account" ELSE "Transfer",
      objectUpdateId |-> objectUpdateId,
      deleted        |-> deleted,
      data           |-> IF deleted THEN NoValue ELSE DataFor(uri, objectUpdateId) ]

----------------------------------------------------------------------------
(***************************************************************************)
(* collectObjectUpdates: a loop over the entries which keeps the running   *)
(* cursor and the map uri -> ObjectUpdateInfo, and throws BrokenLogStream  *)
(* at the first entry whose id is not the incremented cursor.              *)
(***************************************************************************)
BrokenLogStream == [ thrown |-> "BrokenLogStream" ]

EmptyMap == [ u \in {} |-> NoValue ]

\* updates.set(uri, info)
MapSet(updates, uri, info) ==
    [ u \in (DOMAIN updates) \cup {uri} |-> IF u = uri THEN info ELSE updates[u] ]

\* The ObjectUpdateInfo the loop body builds for one accepted entry;
\* existingUpdate is updates.get(uri), which may be undefined.
UpdateInfoMutForgetsRecreated(updates, entry) ==
    [ objectType |-> entry.objectType,
      updateId   |-> IF entry.deleted THEN "deleted" ELSE entry.objectUpdateId,
      recreated  |-> /\ entry.uri \in DOMAIN updates
                     /\ updates[entry.uri].updateId = "deleted"
                     /\ ~entry.deleted,
      data       |-> entry.data ]

UpdateInfoMutFirstWins(updates, entry) ==
    IF entry.uri \in DOMAIN updates THEN updates[entry.uri]
    ELSE [ objectType |-> entry.objectType,
           updateId   |-> IF entry.deleted THEN "deleted" ELSE entry.objectUpdateId,
           recreated  |-> FALSE,
           data       |-> entry.data ]

UpdateInfo(updates, entry) ==
    LET hasExisting == entry.uri \in DOMAIN updates
        recreated == /\ hasExisting
                     /\ updates[entry.uri].updateId = "deleted"
                     /\ ~entry.deleted
    IN [ objectType |-> entry.objectType,
         updateId   |-> IF entry.deleted THEN "deleted" ELSE entry.objectUpdateId,
         recreated  |-> (hasExisting /\ updates[entry.uri].recreated) \/ recreated,
         data       |-> entry.data ]

\* The test of the loop body, entryId != ++latestEntryId, with cursor the
\* value of latestEntryId before the increment.
IsGapMutAcceptsLater(entryId, cursor) == entryId < cursor + 1

IsGapMutAcceptsEarlier(entryId, cursor) == entryId > cursor + 1

IsGap(entryId, cursor) == entryId # cursor + 1

RECURSIVE CollectLoop(_, _, _, _)
CollectLoop(cursor, updates, entries, i) ==
    IF i > Len(entries)
    THEN [ thrown |-> "none", latestEntryId |-> cursor, updates |-> updates ]
    ELSE IF IsGap(entries[i].entryId, cursor)
         THEN BrokenLogStream
         ELSE CollectLoop(cursor + 1,
                          MapSet(updates, entries[i].uri, UpdateInfo(updates, entries[i])),
                          entries, i + 1)

collectObjectUpdates(cursor, entries) ==
    CollectLoop(cursor, EmptyMap, entries, 1)

----------------------------------------------------------------------------
(***************************************************************************)
(* The collector's runs.  A batch of entries arrives (ReceiveLogEntry),    *)
(* is handed to collectObjectUpdates as one batch (CollectBatch), and the  *)
(* same batch is replayed one entry per call (CollectSingle), the results  *)
(* being combined in order: the cursor a call returns is handed to the     *)
(* next call and the update of a later call replaces an earlier update of  *)
(* the same uri.                                                           *)
(***************************************************************************)
NoResult == [ thrown |-> "notcalled" ]

\* The entry ids a server page may carry next: the expected id, a repeated
\* (already seen) id, and an id after a lost entry.
NextEntryIds ==
    LET expected == IF logEntries = << >> THEN latestEntryId + 1
                    ELSE logEntries[Len(logEntries)].entryId + 1
    IN { expected - 1, expected, expected + 1 }

LogStart ==
    /\ logEntries = << >>
    /\ batchResult = NoResult
    /\ single = [ status |-> "idle", cursor |-> 0, updates |-> EmptyMap, k |-> 1 ]

\* The collector is not running.
LogIdle == latestEntryId = 0 /\ LogStart

InitLog ==
    /\ latestEntryId \in 0..MaxCursor
    /\ LogStart
    /\ BootIdle
    /\ AppIdle
    /\ MgrIdle
    /\ ActIdle

ReceiveLogEntry ==
    /\ batchResult = NoResult
    /\ single.status = "idle"
    /\ Len(logEntries) < MaxLen
    /\ \E entryId \in NextEntryIds, uri \in Uris, deleted \in BOOLEAN, updateId \in UpdateIds :
          /\ deleted => updateId = "1"
          /\ logEntries' = Append(logEntries, LogEntry(entryId, uri, deleted, updateId))
    /\ UNCHANGED <<latestEntryId, batchResult, single>>
    /\ UNCHANGED <<bootVars, appVars, mgrVars, actVars>>

CollectBatch ==
    /\ batchResult = NoResult
    /\ batchResult' = collectObjectUpdates(latestEntryId, logEntries)
    /\ UNCHANGED <<latestEntryId, logEntries, single>>
    /\ UNCHANGED <<bootVars, appVars, mgrVars, actVars>>

\* Combining the result of one more single-entry call with what the
\* earlier calls gave: Map entries of the later result replace the earlier.
CombineUpdates(earlier, later) ==
    [ u \in (DOMAIN earlier) \cup (DOMAIN later) |->
        IF u \in DOMAIN later THEN later[u] ELSE earlier[u] ]

CollectSingleStart ==
    /\ batchResult # NoResult
    /\ single.status = "idle"
    /\ single' = [ status |-> IF logEntries = << >> THEN "done" ELSE "running",
                   cursor |-> latestEntryId, updates |-> EmptyMap, k |-> 1 ]
    /\ UNCHANGED <<latestEntryId, logEntries, batchResult>>
    /\ UNCHANGED <<bootVars, appVars, mgrVars, actVars>>

CollectSingle ==
    /\ single.status = "running"
    /\ LET r == collectObjectUpdates(single.cursor, << logEntries[single.k] >>)
       IN IF r.thrown = "BrokenLogStream"
          THEN single' = [ single EXCEPT !.status = "broken" ]
          ELSE single' = [ status  |-> IF single.k = Len(logEntries) THEN "done" ELSE "running",
                           cursor  |-> r.latestEntryId,
                           updates |-> CombineUpdates(single.updates, r.updates),
                           k       |-> single.k + 1 ]
    /\ UNCHANGED <<latestEntryId, logEntries, batchResult>>
    /\ UNCHANGED <<bootVars, appVars, mgrVars, actVars>>

NextLog ==
    \/ ReceiveLogEntry
    \/ CollectBatch
    \/ CollectSingleStart
    \/ CollectSingle

SpecLog == InitLog /\ [][NextLog]_vars

----------------------------------------------------------------------------
(***************************************************************************)
(* getOrCreateUserId.  db.getUserId, db.getWalletRecord and                *)
(* db.storeUserData belong to the storage module; storeUserData is taken   *)
(* to store a fresh wallet record (not broken, transfers not loaded).      *)
(***************************************************************************)
\* userId === undefined || (await db.getWalletRecord(userId)).logStream.isBroken
NeedsProvisioningMutIgnoresBroken(d) == d.userId = "none"

NeedsProvisioning(d) == d.userId = "none" \/ d.isBroken

storeUserData(d) ==
    [ d EXCEPT !.userId = "user", !.isBroken = FALSE, !.loadedTransfers = FALSE ]

\* One call, made when a session starts; getUserData reads the wallet, the
\* creditor, the PIN info and the accounts from the server, and may throw.
GetOrCreateUserId ==
    /\ boot.pc \in {"idle", "returned", "thrown"}
    /\ prov.calls < MaxUserCalls
    /\ \E serverFails \in BOOLEAN :
          LET needs == NeedsProvisioning(db)
              stores == needs /\ ~serverFails
          IN /\ ~needs => ~serverFails
             /\ db' = IF stores THEN storeUserData(db) ELSE db
             /\ prov' = [ calls       |-> prov.calls + 1,
                          serverReads |-> prov.serverReads + (IF needs THEN 1 ELSE 0),
                          stores      |-> prov.stores + (IF stores THEN 1 ELSE 0),
                          hadUser     |-> db.userId # "none",
                          wasBroken   |-> db.isBroken,
                          threw       |-> needs /\ serverFails ]
    /\ boot' = BootStopped
    /\ UNCHANGED <<items, bootLog>>
    /\ UNCHANGED <<logVars, appVars, mgrVars, actVars>>

\* The synchronizer met a gap in the log stream (BrokenLogStream) and
\* recorded it in the wallet record.
MarkBroken ==
    /\ boot.pc = "returned"
    /\ db.userId # "none"
    /\ db.loadedTransfers
    /\ ~db.isBroken
    /\ db' = [ db EXCEPT !.isBroken = TRUE ]
    /\ UNCHANGED <<items, boot, bootLog, prov>>
    /\ UNCHANGED <<logVars, appVars, mgrVars, actVars>>

----------------------------------------------------------------------------
(***************************************************************************)
(* ensureLoadedTransfers.                                                  *)
(***************************************************************************)
\* The server's transfers list, as iterPaginatedList yields it.
TransfersList == [ i \in TransferUris |-> i ]

\* fetchTransfers(uris): all requests settle; a rejection which is not an
\* HTTP 404 is thrown; the fulfilled responses are returned in order.
fetchTransfersMutThrowsOn404(uris) ==
    LET rejected == { i \in 1..Len(uris) : ServerStatus(uris[i]) # "ok" }
    IN [ thrown    |-> rejected # {},
         transfers |-> SelectSeq(uris, LAMBDA u : ServerStatus(u) = "ok"),
         notFound  |-> { uris[i] : i \in { j \in rejected : ServerStatus(uris[j]) = "404" } } ]

fetchTransfers(uris) ==
    LET rejected == { i \in 1..Len(uris) : ServerStatus(uris[i]) # "ok" }
    IN [ thrown    |-> \E i \in rejected : ServerStatus(uris[i]) # "404",
         transfers |-> SelectSeq(uris, LAMBDA u : ServerStatus(u) = "ok"),
         notFound  |-> { uris[i] : i \in { j \in rejected : ServerStatus(uris[j]) = "404" } } ]

\* The transfers a fetch returned, as the generator yields them.
Fetched(uris) == [ i \in 1..Len(uris) |-> [ uri |-> uris[i], from |-> "fetched" ] ]

\* transferRecord && (transferRecord.result || transferRecord.aborted)
IsConcludedTransfer(record) == record \in {"succeeded", "failed", "aborted"}

\* db.storeTransfer(userId, transfer), of the storage module: the record of
\* the transfer becomes what was handed over.
storeTransfer(d, item) ==
    IF item.from = "fetched"
    THEN [ d EXCEPT !.transferRecords[item.uri] = ServerRecord(item.uri) ]
    ELSE d

Thrown(batch, cause) ==
    [ BootStopped EXCEPT !.pc = "thrown", !.failedBatch = batch, !.cause = cause ]

\* const walletRecord = await db.getWalletRecord(userId);
\* if (!walletRecord.logStream.loadedTransfers) ... ; return walletRecord
StartEnsure ==
    /\ boot.pc \in {"idle", "returned", "thrown"}
    /\ db.userId # "none"
    /\ IF db.loadedTransfers
       THEN /\ boot' = [ BootStopped EXCEPT !.pc = "returned" ]
            /\ UNCHANGED bootLog
       ELSE /\ boot' = [ BootStopped EXCEPT !.pc = "list" ]
            /\ bootLog' = NoRun
    /\ UNCHANGED <<items, db, prov>>
    /\ UNCHANGED <<logVars, appVars, mgrVars, actVars>>

\* iterPaginatedList: the list and its first page are read.
FetchList ==
    /\ boot.pc = "list"
    /\ boot' = [ boot EXCEPT !.pc = "iter" ]
    /\ UNCHANGED <<items, db, bootLog, prov>>
    /\ UNCHANGED <<logVars, appVars, mgrVars, actVars>>

FetchListFails ==
    /\ boot.pc = "list"
    /\ boot' = Thrown(<< >>, "list")
    /\ UNCHANGED <<items, db, bootLog, prov>>
    /\ UNCHANGED <<logVars, appVars, mgrVars, actVars>>

\* One round of the for-await loop of iterTransfers.
IterItem ==
    /\ boot.pc = "iter"
    /\ boot.idx <= Len(TransfersList)
    /\ boot.toStore = << >>
    /\ LET uri == TransfersList[boot.idx]
           record == db.transferRecords[uri]
           concluded == IsConcludedTransfer(record)
           uris == IF concluded THEN boot.urisToFetch ELSE Append(boot.urisToFetch, uri)
           yieldsLocal == concluded /\ record = "failed"
           flush == Len(uris) >= FetchBatchSize
           fetched == fetchTransfers(uris)
       IN IF flush /\ fetched.thrown
          THEN /\ boot' = Thrown(uris, "fetch")
               /\ bootLog' = [ bootLog EXCEPT
                                 !.skipped = IF concluded THEN @ \cup {uri} ELSE @ ]
          ELSE /\ boot' = [ boot EXCEPT
                              !.idx = @ + 1,
                              !.urisToFetch = IF flush THEN << >> ELSE uris,
                              !.toStore = IF yieldsLocal
                                          THEN << [ uri |-> uri, from |-> "local" ] >>
                                          ELSE IF flush THEN Fetched(fetched.transfers)
                                          ELSE << >> ]
               /\ bootLog' = [ bootLog EXCEPT
                                 !.skipped = IF concluded THEN @ \cup {uri} ELSE @,
                                 !.got404 = IF flush THEN @ \cup fetched.notFound ELSE @ ]
    /\ UNCHANGED <<items, db, prov>>
    /\ UNCHANGED <<logVars, appVars, mgrVars, actVars>>

\* The consumer of the generator: await db.storeTransfer(userId, transfer)
StoreTransfer ==
    /\ boot.pc \in {"iter", "flag"}
    /\ boot.toStore # << >>
    /\ LET item == Head(boot.toStore)
       IN /\ db' = storeTransfer(db, item)
          /\ bootLog' = IF item.from = "fetched"
                        THEN [ bootLog EXCEPT !.storedFetched = @ \cup {item.uri} ]
                        ELSE [ bootLog EXCEPT !.storedLocal = @ \cup {item.uri} ]
    /\ boot' = [ boot EXCEPT !.toStore = Tail(@) ]
    /\ UNCHANGED <<items, prov>>
    /\ UNCHANGED <<logVars, appVars, mgrVars, actVars>>

\* After the loop: yield* await fetchTransfers(urisToFetch)
FinalFetchMutForgotten ==
    /\ boot.pc = "iter"
    /\ boot.idx > Len(TransfersList)
    /\ boot.toStore = << >>
    /\ boot' = [ boot EXCEPT !.pc = "flag", !.urisToFetch = << >> ]
    /\ bootLog' = [ bootLog EXCEPT !.complete = TRUE ]
    /\ UNCHANGED <<items, db, prov>>
    /\ UNCHANGED <<logVars, appVars, mgrVars, actVars>>

FinalFetch ==
    /\ boot.pc = "iter"
    /\ boot.idx > Len(TransfersList)
    /\ boot.toStore = << >>
    /\ LET fetched == fetchTransfers(boot.urisToFetch)
       IN IF fetched.thrown
          THEN /\ boot' = Thrown(boot.urisToFetch, "fetch")
               /\ UNCHANGED bootLog
          ELSE /\ boot' = [ boot EXCEPT !.pc = "flag",
                                        !.urisToFetch = << >>,
                                        !.toStore = Fetched(fetched.transfers) ]
               /\ bootLog' = [ bootLog EXCEPT !.complete = TRUE,
                                              !.got404 = @ \cup fetched.notFound ]
    /\ UNCHANGED <<items, db, prov>>
    /\ UNCHANGED <<logVars, appVars, mgrVars, actVars>>

\* walletRecord.logStream.loadedTransfers = true;
\* await db.updateWalletRecord(walletRecord)
SetLoadedTransfers ==
    /\ boot.pc = "flag"
    /\ boot.toStore = << >>
    /\ db' = [ db EXCEPT !.loadedTransfers = TRUE ]
    /\ boot' = [ BootStopped EXCEPT !.pc = "returned" ]
    /\ UNCHANGED <<items, bootLog, prov>>
    /\ UNCHANGED <<logVars, appVars, mgrVars, actVars>>

\* The page is closed or reloaded while the bootstrap is awaiting.
InterruptBoot ==
    /\ boot.pc \in {"list", "iter", "flag"}
    /\ boot' = BootStopped
    /\ UNCHANGED <<items, db, bootLog, prov>>
    /\ UNCHANGED <<logVars, appVars, mgrVars, actVars>>

InitBoot ==
    /\ items \in ItemsWith(MaxAbnormal)
    /\ db = [ userId |-> "none", isBroken |-> FALSE, loadedTransfers |-> FALSE,
              transferRecords |-> [ u \in TransferUris |-> InitialRecord(items[u]) ] ]
    /\ boot = BootStopped
    /\ bootLog = NoRun
    /\ prov = NoCalls
    /\ LogIdle
    /\ AppIdle
    /\ MgrIdle
    /\ ActIdle

NextBoot ==
    \/ GetOrCreateUserId
    \/ MarkBroken
    \/ StartEnsure
    \/ FetchList
    \/ FetchListFails
    \/ IterItem
    \/ StoreTransfer
    \/ FinalFetch
    \/ SetLoadedTransfers
    \/ InterruptBoot

SpecBoot == InitBoot /\ [][NextBoot]_vars

----------------------------------------------------------------------------
(***************************************************************************)
(* AppState: attempt(), the interaction id and the navigation operations.  *)
(* An operation is a call of attempt(func); its record keeps the           *)
(* interaction id it captured and the await func is suspended at.          *)
(***************************************************************************)
\* attempt(): if (startInteraction) interactionId = ++this.interactionId
\*            else interactionId = this.interactionId
\* The value is both the new this.interactionId and the captured id.
attemptMutNeverIncrements(current, startInteraction) == current

attempt(current, startInteraction) ==
    IF startInteraction THEN current + 1 ELSE current

\* if (this.interactionId === interactionId)
IsCurrent(op) == interactionId = op.id

Op(name, id, pc, startInteraction) ==
    [ name |-> name, id |-> id, pc |-> pc, startInteraction |-> startInteraction,
      hadAccount |-> accountKnown, save |-> 0, action |-> 0, edited |-> 0 ]

Done(i) == [ ops EXCEPT ![i].pc = "done" ]

At(i, pc) == [ ops EXCEPT ![i].pc = pc ]

\* A call of an operation that wraps its body in attempt(): the body runs up
\* to its first await.
Call(before, name, pc) ==
    /\ Len(before) < MaxOps
    /\ interactionId' = attempt(interactionId, TRUE)
    /\ ops' = Append(before, Op(name, interactionId', pc, TRUE))

\* addAlert(alert): attempt(..., {startInteraction: false}); the body has no
\* await.
CallAddAlert(before) ==
    /\ Len(before) < MaxOps
    /\ interactionId' = attempt(interactionId, FALSE)
    /\ ops' = Append(before, Op("addAlert", interactionId', "done", FALSE))
    /\ alerts' = alerts + 1

Effect(kind, i) ==
    [ kind |-> kind, by |-> ops[i].name, captured |-> ops[i].id,
      current |-> interactionId ]

\* this.pageModel.set({type: ...}) by operation i
SetPageModel(i, type) ==
    /\ pageModel' = type
    /\ lastEffect' = Effect("pageModel", i)

Awaiting(i, name, pc) ==
    /\ i \in 1..Len(ops)
    /\ ops[i].name = name
    /\ ops[i].pc = pc

\* ---- what the user (or a page's callback) calls ----
ShowActions ==
    /\ Call(ops, "showActions", "createLiveQuery")
    /\ UNCHANGED <<pageModel, alerts, accountKnown, pushes, lastEffect>>
    /\ UNCHANGED <<logVars, bootVars, mgrVars, actVars>>

ShowAccounts ==
    /\ Call(ops, "showAccounts", "getAccountsDataForDisplay")
    /\ UNCHANGED <<pageModel, alerts, accountKnown, pushes, lastEffect>>
    /\ UNCHANGED <<logVars, bootVars, mgrVars, actVars>>

ShowAction ==
    /\ Call(ops, "showAction", "getActionRecord")
    /\ UNCHANGED <<pageModel, alerts, accountKnown, pushes, lastEffect>>
    /\ UNCHANGED <<logVars, bootVars, mgrVars, actVars>>

\* showAccount: without account data it calls showAccounts() and returns.
ShowAccount ==
    /\ IF accountKnown
       THEN Call(ops, "showAccount", "getAccountSortPriority")
       ELSE Call(ops, "showAccounts", "getAccountsDataForDisplay")
    /\ UNCHANGED <<pageModel, alerts, accountKnown, pushes, lastEffect>>
    /\ UNCHANGED <<logVars, bootVars, mgrVars, actVars>>

CreateConfigAccountAction ==
    /\ Call(ops, "createConfigAccountAction", "getAccount")
    /\ UNCHANGED <<pageModel, alerts, accountKnown, pushes, lastEffect>>
    /\ UNCHANGED <<logVars, bootVars, mgrVars, actVars>>

CreateUpdatePolicyAction ==
    /\ Call(ops, "createUpdatePolicyAction", "getAccount")
    /\ UNCHANGED <<pageModel, alerts, accountKnown, pushes, lastEffect>>
    /\ UNCHANGED <<logVars, bootVars, mgrVars, actVars>>

\* startInteraction(): history.pushState(++this.interactionId, '')
StartInteraction ==
    /\ pushes < MaxPushes
    /\ pushes' = pushes + 1
    /\ interactionId' = interactionId + 1
    /\ UNCHANGED <<pageModel, alerts, accountKnown, ops, lastEffect>>
    /\ UNCHANGED <<logVars, bootVars, mgrVars, actVars>>

AddAlert ==
    /\ CallAddAlert(ops)
    /\ UNCHANGED <<pageModel, accountKnown, pushes, lastEffect>>
    /\ UNCHANGED <<logVars, bootVars, mgrVars, actVars>>

\* The synchronizer adds the account to, or removes it from, the accounts map.
AccountsMapChanges ==
    /\ accountKnown' = ~accountKnown
    /\ UNCHANGED <<interactionId, pageModel, alerts, ops, pushes, lastEffect>>
    /\ UNCHANGED <<logVars, bootVars, mgrVars, actVars>>

\* ---- what happens when an awaited call of an operation completes ----
\* showActions, after: await createLiveQuery(...)
ShowActionsResumes(i) ==
    /\ Awaiting(i, "showActions", "createLiveQuery")
    /\ ops' = Done(i)
    /\ IF IsCurrent(ops[i])
       THEN SetPageModel(i, "ActionsModel")
       ELSE UNCHANGED <<pageModel, lastEffect>>
    /\ UNCHANGED <<interactionId, alerts, accountKnown, pushes>>
    /\ UNCHANGED <<logVars, bootVars, mgrVars, actVars>>

\* showAccounts, after: await this.uc.getAccountsDataForDisplay()
ShowAccountsResumes(i) ==
    /\ Awaiting(i, "showAccounts", "getAccountsDataForDisplay")
    /\ ops' = Done(i)
    /\ IF IsCurrent(ops[i])
       THEN SetPageModel(i, "AccountsModel")
       ELSE UNCHANGED <<pageModel, lastEffect>>
    /\ UNCHANGED <<interactionId, alerts, accountKnown, pushes>>
    /\ UNCHANGED <<logVars, bootVars, mgrVars, actVars>>

\* showAction, after: await this.uc.getActionRecord(actionId); the record
\* found is a ConfigAccount action, or there is none.
ShowActionResumes(i) ==
    /\ Awaiting(i, "showAction", "getActionRecord")
    /\ IF IsCurrent(ops[i])
       THEN \E found \in BOOLEAN :
               IF found
               THEN /\ Call(Done(i), "showConfigAccountAction",
                            IF accountKnown THEN "detectNonstandardAmountDisplay"
                                            ELSE "replaceActionRecord")
                    /\ lastEffect' = Effect("navigation", i)
                    /\ UNCHANGED alerts
               ELSE /\ CallAddAlert(Done(i))
                    /\ UNCHANGED lastEffect
       ELSE /\ ops' = Done(i)
            /\ UNCHANGED <<interactionId, alerts, lastEffect>>
    /\ UNCHANGED <<pageModel, accountKnown, pushes>>
    /\ UNCHANGED <<logVars, bootVars, mgrVars, actVars>>

\* showConfigAccountAction, after: await detectNonstandardAmountDisplay(...)
\* or, without account data, after: await this.uc.replaceActionRecord(action, null)
ShowConfigAccountActionResumes(i) ==
    /\ i \in 1..Len(ops)
    /\ ops[i].name = "showConfigAccountAction"
    /\ ops[i].pc \in {"detectNonstandardAmountDisplay", "replaceActionRecord"}
    /\ IF ~IsCurrent(ops[i])
       THEN /\ ops' = Done(i)
            /\ UNCHANGED <<interactionId, pageModel, lastEffect>>
       ELSE IF ops[i].pc = "detectNonstandardAmountDisplay"
       THEN /\ ops' = Done(i)
            /\ SetPageModel(i, "ConfigAccountModel")
            /\ UNCHANGED interactionId
       ELSE /\ Call(Done(i), "showActions", "createLiveQuery")
            /\ lastEffect' = Effect("navigation", i)
            /\ UNCHANGED pageModel
    /\ UNCHANGED <<alerts, accountKnown, pushes>>
    /\ UNCHANGED <<logVars, bootVars, mgrVars, actVars>>

\* showAccount, after: await this.uc.getAccountSortPriority(accountUri)
ShowAccountGotSortPriority(i) ==
    /\ Awaiting(i, "showAccount", "getAccountSortPriority")
    /\ ops' = At(i, "getExtendedLedgerEntries")
    /\ UNCHANGED <<interactionId, pageModel, alerts, accountKnown, pushes, lastEffect>>
    /\ UNCHANGED <<logVars, bootVars, mgrVars, actVars>>

\* showAccount, after: await this.uc.getExtendedLedgerEntries(accountData)
ShowAccountResumes(i) ==
    /\ Awaiting(i, "showAccount", "getExtendedLedgerEntries")
    /\ ops' = Done(i)
    /\ IF IsCurrent(ops[i])
       THEN SetPageModel(i, "AccountModel")
       ELSE UNCHANGED <<pageModel, lastEffect>>
    /\ UNCHANGED <<interactionId, alerts, accountKnown, pushes>>
    /\ UNCHANGED <<logVars, bootVars, mgrVars, actVars>>

\* createConfigAccountAction and createUpdatePolicyAction, after:
\*   await this.uc.getAccount(accountUri)
\*   const accountData = this.accountsMap.getAccountFullData(accountUri)
\*   if (accountData === undefined) { this.showAccounts(); return }
CreateActionGotAccount(i) ==
    /\ i \in 1..Len(ops)
    /\ ops[i].name \in {"createConfigAccountAction", "createUpdatePolicyAction"}
    /\ ops[i].pc = "getAccount"
    /\ IF ~accountKnown
       THEN /\ Call(Done(i), "showAccounts", "getAccountsDataForDisplay")
            /\ lastEffect' = Effect("navigation", i)
       ELSE /\ ops' = At(i, "ensureUniqueAccountAction")
            /\ UNCHANGED <<interactionId, lastEffect>>
    /\ UNCHANGED <<pageModel, alerts, accountKnown, pushes>>
    /\ UNCHANGED <<logVars, bootVars, mgrVars, actVars>>

\* ... after: await this.uc.ensureUniqueAccountAction({...})
\*   if (this.interactionId === interactionId) this.showAction(action.actionId, ...)
CreateActionResumes(i) ==
    /\ i \in 1..Len(ops)
    /\ ops[i].name \in {"createConfigAccountAction", "createUpdatePolicyAction"}
    /\ ops[i].pc = "ensureUniqueAccountAction"
    /\ IF IsCurrent(ops[i])
       THEN /\ Call(Done(i), "showAction", "getActionRecord")
            /\ lastEffect' = Effect("navigation", i)
       ELSE /\ ops' = Done(i)
            /\ UNCHANGED <<interactionId, lastEffect>>
    /\ UNCHANGED <<pageModel, alerts, accountKnown, pushes>>
    /\ UNCHANGED <<logVars, bootVars, mgrVars, actVars>>

NavigationOps ==
    { "showActions", "showAccounts", "showAction", "showConfigAccountAction",
      "showAccount", "createConfigAccountAction", "createUpdatePolicyAction" }

\* The awaited call of a navigation operation throws: attempt() catches the
\* error and calls addAlert with the alert listed for it, or with the
\* unexpected-error alert.
AwaitedCallThrows(i) ==
    /\ i \in 1..Len(ops)
    /\ ops[i].name \in NavigationOps
    /\ ops[i].pc # "done"
    /\ CallAddAlert(Done(i))
    /\ UNCHANGED <<pageModel, accountKnown, pushes, lastEffect>>
    /\ UNCHANGED <<logVars, bootVars, mgrVars, actVars>>

InitApp ==
    /\ AppIdle
    /\ MgrIdle
    /\ ActIdle
    /\ LogIdle
    /\ BootIdle

NextApp ==
    \/ ShowActions
    \/ ShowAccounts
    \/ ShowAction
    \/ ShowAccount
    \/ CreateConfigAccountAction
    \/ CreateUpdatePolicyAction
    \/ StartInteraction
    \/ AddAlert
    \/ AccountsMapChanges
    \/ \E i \in 1..MaxOps : ShowActionsResumes(i)
    \/ \E i \in 1..MaxOps : ShowAccountsResumes(i)
    \/ \E i \in 1..MaxOps : ShowActionResumes(i)
    \/ \E i \in 1..MaxOps : ShowConfigAccountActionResumes(i)
    \/ \E i \in 1..MaxOps : ShowAccountGotSortPriority(i)
    \/ \E i \in 1..MaxOps : ShowAccountResumes(i)
    \/ \E i \in 1..MaxOps : CreateActionGotAccount(i)
    \/ \E i \in 1..MaxOps : CreateActionResumes(i)
    \/ \E i \in 1..MaxOps : AwaitedCallThrows(i)

SpecApp == InitApp /\ [][NextApp]_vars

----------------------------------------------------------------------------
(***************************************************************************)
(* createActionManager: store, markDirty, save, saveAndClose; and an       *)
(* operation that resolves the action (executeConfigAccountAction stands   *)
(* for the nine operations of this shape).  The value of the action is the *)
(* number of the edit it carries; mgr.form is what createModifiedValue()   *)
(* returns.  A promise of save() is                                        *)
(*   "awaitUpdatePromise"  store() waits for the promise made before it,   *)
(*   "replaceActionRecord" the write is under way,                         *)
(*   "resolved" or "rejected".                                             *)
(***************************************************************************)
Deleted == [ state |-> "deleted", value |-> 0 ]

Foreign == [ state |-> "foreign", value |-> 0 ]

Settled(promise) == promise.state \in {"resolved", "rejected"}

\* .catch(ignoreRecordDoesNotExistErrors): what becomes of the promise
ignoreRecordDoesNotExistErrorsMutRejectsAll(error) == "rejected"

ignoreRecordDoesNotExistErrors(error) ==
    IF error = "RecordDoesNotExist" THEN "resolved" ELSE "rejected"

\* this.uc.replaceActionRecord(original, replacement), of the storage module:
\* the record is replaced only if it still is the original; otherwise
\* RecordDoesNotExist is thrown.  Any write may fail with a storage error.
replaceActionRecord(record, original, replacement, storageFails) ==
    IF storageFails THEN [ error |-> "StorageError", record |-> record ]
    ELSE IF record = Record(original)
    THEN [ error |-> "none", record |-> Record(replacement) ]
    ELSE [ error |-> "RecordDoesNotExist", record |-> record ]

\* A promise of save(): the value given to store(), the baseline `action`
\* that store() found after its await, whether it has issued a write, and
\* what has become of it.
SavePromise(value) ==
    [ value |-> value, original |-> 0, written |-> FALSE,
      state |-> "awaitUpdatePromise", error |-> "none" ]

\* save(): if (!isClosed) { latestValue = createModifiedValue()
\*   updatePromise = store(latestValue).catch(...); isDirty = false }
\* store() runs up to `await updatePromise`.
saveMutIgnoresClosed(m, ps) ==
    [ mgr |-> [ m EXCEPT !.latestValue = m.form, !.isDirty = FALSE ],
      promises |-> Append(ps, SavePromise(m.form)) ]

save(m, ps) ==
    IF m.isClosed
    THEN [ mgr |-> m, promises |-> ps ]
    ELSE [ mgr |-> [ m EXCEPT !.latestValue = m.form, !.isDirty = FALSE ],
           promises |-> Append(ps, SavePromise(m.form)) ]

CanSave == mgr.isClosed \/ Len(promises) < MaxSaves

\* The user edits the form; the page calls markDirty().
Edit ==
    /\ ~mgr.isClosed
    /\ mgr.form < MaxEdits
    /\ mgr' = [ mgr EXCEPT !.form = @ + 1,
                           !.isDirty = TRUE,
                           !.timers = IF mgr.isDirty THEN @ ELSE @ + 1 ]
    /\ UNCHANGED <<stored, promises, requests>>
    /\ UNCHANGED <<logVars, bootVars, appVars, actVars>>

\* setTimeout(save, 5000) of markDirty fires (or 'beforeunload' does).
TimerCallsSave ==
    /\ mgr.timers > 0
    /\ CanSave
    /\ LET after == save(mgr, promises)
       IN /\ mgr' = [ after.mgr EXCEPT !.timers = @ - 1 ]
          /\ promises' = after.promises
    /\ UNCHANGED <<stored, requests>>
    /\ UNCHANGED <<logVars, bootVars, appVars, actVars>>

\* saveAndClose(): const savePromise = save(); isClosed = true
SaveAndClose ==
    /\ ~mgr.isClosed
    /\ CanSave
    /\ LET after == save(mgr, promises)
       IN /\ mgr' = [ after.mgr EXCEPT !.isClosed = TRUE ]
          /\ promises' = after.promises
    /\ UNCHANGED <<stored, requests>>
    /\ UNCHANGED <<logVars, bootVars, appVars, actVars>>

\* `await updatePromise` of the store() of the k-th save: updatePromise is
\* the promise of the save before it (Promise.resolve() for the first)
UpdatePromiseSettledMutDoesNotAwait(ps, k) == TRUE

UpdatePromiseSettled(ps, k) == k > 1 => Settled(ps[k - 1])

\* store(value), after: await updatePromise
\*   if (!equal(action, value)) await this.uc.replaceActionRecord(action, action = value)
StoreResumes(k) ==
    /\ k \in 1..Len(promises)
    /\ promises[k].state = "awaitUpdatePromise"
    /\ UpdatePromiseSettled(promises, k)
    /\ IF k > 1 /\ promises[k - 1].state = "rejected"
       THEN /\ promises' = [ promises EXCEPT
                               ![k].error = promises[k - 1].error,
                               ![k].state = ignoreRecordDoesNotExistErrors(promises[k - 1].error) ]
            /\ UNCHANGED mgr
       ELSE IF mgr.action = promises[k].value
       THEN /\ promises' = [ promises EXCEPT ![k].state = "resolved",
                                             ![k].original = mgr.action ]
            /\ UNCHANGED mgr
       ELSE /\ promises' = [ promises EXCEPT ![k].state = "replaceActionRecord",
                                             ![k].original = mgr.action,
                                             ![k].written = TRUE ]
            /\ mgr' = [ mgr EXCEPT !.action = promises[k].value ]
    /\ UNCHANGED <<stored, requests>>
    /\ UNCHANGED <<logVars, bootVars, appVars, actVars>>

\* The write of store() settles.
ReplaceSettles(k) ==
    /\ k \in 1..Len(promises)
    /\ promises[k].state = "replaceActionRecord"
    /\ \E storageFails \in BOOLEAN :
          LET out == replaceActionRecord(stored, promises[k].original,
                                         promises[k].value, storageFails)
          IN /\ stored' = out.record
             /\ promises' = [ promises EXCEPT
                                ![k].error = out.error,
                                ![k].state = IF out.error = "none" THEN "resolved"
                                             ELSE ignoreRecordDoesNotExistErrors(out.error) ]
    /\ UNCHANGED <<mgr, requests>>
    /\ UNCHANGED <<logVars, bootVars, appVars, actVars>>

\* Another page, or the synchronizer, replaces or deletes the action record.
RecordChangesElsewhere ==
    /\ stored.state = "own"
    /\ stored' \in {Foreign, Deleted}
    /\ UNCHANGED <<mgr, promises, requests>>
    /\ UNCHANGED <<logVars, bootVars, appVars, actVars>>

\* await saveActionPromise: the promise save() returned has settled
\* (promise 0 is the Promise.resolve() the manager starts with).
SaveSettledMutDoesNotAwait(k) == TRUE

SaveSettled(k) == k = 0 \/ Settled(promises[k])

\* this.uc.executeConfigAccountAction(action, ...), of the user context: it
\* asks the server to apply the action and then deletes the action record;
\* it throws if the server request fails or if the record is not the one
\* passed.
executeConfigAccountAction(record, action, serverFails) ==
    IF serverFails THEN [ error |-> "ServerSessionError", record |-> record ]
    ELSE IF record = Record(action)
    THEN [ error |-> "none", record |-> Deleted ]
    ELSE [ error |-> "RecordDoesNotExist", record |-> record ]

\* executeConfigAccountAction(actionManager, ...) is called:
\*   const saveActionPromise = actionManager.save()
\*   let action = actionManager.currentValue
\*   return this.attempt(async () => { interactionId = this.interactionId
\*     await saveActionPromise ...
ExecuteConfigAccountAction ==
    /\ CanSave
    /\ Len(ops) < MaxOps
    /\ LET after == save(mgr, promises)
       IN /\ mgr' = after.mgr
          /\ promises' = after.promises
          /\ interactionId' = attempt(interactionId, TRUE)
          /\ ops' = Append(ops,
                [ Op("executeConfigAccountAction", interactionId',
                     "saveActionPromise", TRUE)
                  EXCEPT !.save = Len(after.promises),
                         !.action = after.mgr.latestValue,
                         !.edited = mgr.form ])
    /\ UNCHANGED <<stored, requests>>
    /\ UNCHANGED <<pageModel, alerts, accountKnown, pushes, lastEffect>>
    /\ UNCHANGED <<logVars, bootVars, actVars>>

\* ... after: await saveActionPromise.  A rejected promise throws an error
\* that no alert is listed for: attempt() adds the unexpected-error alert.
\* Otherwise the request to the user context is issued.
ExecuteAwaitedSave(i) ==
    /\ Awaiting(i, "executeConfigAccountAction", "saveActionPromise")
    /\ SaveSettled(ops[i].save)
    /\ IF ops[i].save > 0 /\ promises[ops[i].save].state = "rejected"
       THEN /\ CallAddAlert(Done(i))
            /\ UNCHANGED requests
       ELSE /\ ops' = At(i, "executeConfigAccountAction")
            /\ requests' = Append(requests,
                  [ action    |-> ops[i].action,
                    edited    |-> ops[i].edited,
                    unsettled |-> { k \in 1..ops[i].save : ~Settled(promises[k]) },
                    later     |-> Len(promises) > ops[i].save,
                    record    |-> stored ])
            /\ UNCHANGED <<interactionId, alerts>>
    /\ UNCHANGED <<stored, mgr, promises>>
    /\ UNCHANGED <<pageModel, accountKnown, pushes, lastEffect>>
    /\ UNCHANGED <<logVars, bootVars, actVars>>

\* ... after: await this.uc.executeConfigAccountAction(action, ...)
\*   checkAndGoBack(); a thrown error has an alert listed, which is added.
ExecuteRequestReturns(i) ==
    /\ Awaiting(i, "executeConfigAccountAction", "executeConfigAccountAction")
    /\ \E serverFails \in BOOLEAN :
          LET out == executeConfigAccountAction(stored, ops[i].action, serverFails)
          IN /\ stored' = out.record
             /\ IF out.error # "none"
                THEN /\ CallAddAlert(Done(i))
                     /\ UNCHANGED lastEffect
                ELSE IF IsCurrent(ops[i])
                THEN /\ Call(Done(i), "showActions", "createLiveQuery")
                     /\ lastEffect' = Effect("navigation", i)
                     /\ UNCHANGED alerts
                ELSE /\ ops' = Done(i)
                     /\ UNCHANGED <<interactionId, alerts, lastEffect>>
    /\ UNCHANGED <<mgr, promises, requests>>
    /\ UNCHANGED <<pageModel, accountKnown, pushes>>
    /\ UNCHANGED <<logVars, bootVars, actVars>>

InitMgr ==
    /\ MgrIdle
    /\ AppIdle
    /\ ActIdle
    /\ LogIdle
    /\ BootIdle

NextMgr ==
    \/ Edit
    \/ TimerCallsSave
    \/ SaveAndClose
    \/ RecordChangesElsewhere
    \/ ExecuteConfigAccountAction
    \/ \E k \in 1..MaxSaves : StoreResumes(k)
    \/ \E k \in 1..MaxSaves : ReplaceSettles(k)
    \/ \E i \in 1..MaxOps : ExecuteAwaitedSave(i)
    \/ \E i \in 1..MaxOps : ExecuteRequestReturns(i)
    \/ \E i \in 1..MaxOps : ShowActionsResumes(i)

SpecMgr == InitMgr /\ [][NextMgr]_vars

----------------------------------------------------------------------------
(***************************************************************************)
(* Properties of the log-stream collector.                                 *)
(***************************************************************************)
\* The id of the entry accepted before entry i (the starting cursor for the
\* first entry).
PreviousId(i) == IF i = 1 THEN latestEntryId ELSE logEntries[i - 1].entryId

\* Entry i does not continue the sequence of its predecessor.
BreaksSequence(i) == logEntries[i].entryId # PreviousId(i) + 1

GapFree == \A i \in 1..Len(logEntries) : ~BreaksSequence(i)

BatchCalled == batchResult # NoResult

BatchThrew == batchResult.thrown = "BrokenLogStream"

\* C1: the one-batch call throws BrokenLogStream exactly when some entry's
\* id is not one more than the id of the entry before it (the starting
\* cursor plus one for the first entry), and a call that throws hands back
\* nothing but the error: no update map and no cursor, so no entry of the
\* batch is applied.
C1_GapThrowsBrokenLogStream ==
    BatchCalled =>
        /\ BatchThrew <=> (\E i \in 1..Len(logEntries) : BreaksSequence(i))
        /\ BatchThrew => DOMAIN batchResult = {"thrown"}
        /\ ~BatchThrew => DOMAIN batchResult = {"thrown", "latestEntryId", "updates"}

\* A batch whose first entry is in sequence and whose second is not: thrown.
C1_Witness ==
    /\ BatchCalled
    /\ BatchThrew
    /\ Len(logEntries) >= 2
    /\ ~BreaksSequence(1)
    /\ BreaksSequence(2)

\* The replay is over and accepted every entry.
SingleDone == single.status = "done"

\* Some earlier entry of the batch deletes uri and a later one does not.
DeletedThenCreated(uri) ==
    \E i, j \in 1..Len(logEntries) :
        /\ i < j
        /\ logEntries[i].uri = uri /\ logEntries[j].uri = uri
        /\ logEntries[i].deleted /\ ~logEntries[j].deleted

\* C2 as stated: for a gap-free batch the one-batch call and the replay of
\* the entries one call at a time, combined in order, end with the same
\* cursor and the same update information for every object, the recreated
\* flag included.
C2_BatchEqualsSingleAsStated ==
    (BatchCalled /\ SingleDone /\ GapFree) =>
        /\ batchResult.latestEntryId = single.cursor
        /\ batchResult.updates = single.updates

\* C2 as amended: the cursor, the set of updated objects and each object's
\* objectType, updateId (or 'deleted') and data are the same either way;
\* the recreated flag differs exactly for an object which the batch deletes
\* and later creates again: the one-batch call reports recreated = true
\* there, and a single-entry call never reports it.
C2_BatchEqualsSingleButRecreated ==
    (BatchCalled /\ SingleDone /\ GapFree) =>
        /\ ~BatchThrew
        /\ batchResult.latestEntryId = single.cursor
        /\ DOMAIN batchResult.updates = DOMAIN single.updates
        /\ \A u \in DOMAIN single.updates :
              /\ batchResult.updates[u].objectType = single.updates[u].objectType
              /\ batchResult.updates[u].updateId = single.updates[u].updateId
              /\ batchResult.updates[u].data = single.updates[u].data
              /\ batchResult.updates[u].recreated = DeletedThenCreated(u)
              /\ single.updates[u].recreated = FALSE

\* A gap-free batch of three entries that updates one object twice with
\* different update ids, collected both ways.
C2_Witness ==
    /\ BatchCalled /\ SingleDone /\ GapFree
    /\ Len(logEntries) = 3
    /\ \E i, j \in 1..Len(logEntries) :
          /\ i < j
          /\ logEntries[i].uri = logEntries[j].uri
          /\ ~logEntries[i].deleted /\ ~logEntries[j].deleted
          /\ logEntries[i].objectUpdateId # logEntries[j].objectUpdateId

\* The last entry of the batch for uri.
LastEntryFor(uri) ==
    logEntries[CHOOSE j \in 1..Len(logEntries) :
                 /\ logEntries[j].uri = uri
                 /\ \A i \in (j + 1)..Len(logEntries) : logEntries[i].uri # uri]

\* C39: the map that collectObjectUpdates returns for one batch has one
\* update for each object URI of the batch and for no other; the update has
\* the objectType, the data and the update id of the last entry for that
\* URI ('deleted' when that entry is a deletion), and its recreated flag is
\* true exactly when, in the batch, an entry that is not a deletion comes
\* after a deletion of the same URI.
C39_OneUpdatePerUriFromLastEntry ==
    (BatchCalled /\ ~BatchThrew) =>
        /\ DOMAIN batchResult.updates =
              { logEntries[i].uri : i \in 1..Len(logEntries) }
        /\ \A u \in DOMAIN batchResult.updates :
              LET info == batchResult.updates[u]
                  last == LastEntryFor(u)
              IN /\ info.objectType = last.objectType
                 /\ info.data = last.data
                 /\ info.updateId = IF last.deleted THEN "deleted"
                                    ELSE last.objectUpdateId
                 /\ info.recreated = DeletedThenCreated(u)

\* A batch that deletes an object, creates it again and updates it: the
\* single update is that of the third entry and says recreated.
C39_Witness ==
    /\ BatchCalled /\ ~BatchThrew
    /\ Len(logEntries) = 3
    /\ \A i \in 1..3 : logEntries[i].uri = "u1"
    /\ logEntries[1].deleted /\ ~logEntries[2].deleted /\ ~logEntries[3].deleted
    /\ batchResult.updates["u1"].recreated
    /\ batchResult.updates["u1"].updateId = logEntries[3].objectUpdateId

\* One call of the replay: the entry at position single.k is handed over.
ReplayStep == single.status = "running" /\ single'.k # single.k

\* C3: entries are accepted in increasing entryId order.  A gap-free batch
\* of n entries from cursor L returns latestEntryId = L + n; the cursor of
\* the replay never decreases and rises by one per accepted entry; and an
\* entry whose id is not above the current cursor is not accepted: the call
\* throws and the cursor and the collected updates stay as they were.
C3_StrictlyIncreasingOrder ==
    /\ [](BatchCalled /\ GapFree =>
            /\ ~BatchThrew
            /\ batchResult.latestEntryId = latestEntryId + Len(logEntries))
    /\ [][single'.cursor >= single.cursor]_vars
    /\ [][ReplayStep => /\ single'.cursor = single.cursor + 1
                        /\ logEntries[single.k].entryId = single'.cursor]_vars
    /\ [][(single.status = "running" /\ logEntries[single.k].entryId <= single.cursor)
             => /\ single'.status = "broken"
                /\ single'.cursor = single.cursor
                /\ single'.updates = single.updates]_vars

\* The replay has rejected an entry that repeats an id at or below the
\* cursor, after accepting at least one entry.
C3_Witness ==
    /\ single.status = "broken"
    /\ single.k >= 2
    /\ logEntries[single.k].entryId <= single.cursor
    /\ single.cursor = latestEntryId + single.k - 1

----------------------------------------------------------------------------
(***************************************************************************)
(* Properties of the transfers bootstrap and of the user provisioning.     *)
(***************************************************************************)
BootRunning == boot.pc \in {"list", "iter", "flag"}

\* The listed transfer was concluded in the local db when the run met it.
Covered(uri) ==
    \/ uri \in bootLog.skipped
    \/ uri \in bootLog.storedFetched /\ db.transferRecords[uri] # "none"
    \/ uri \in bootLog.got404

\* C4: loadedTransfers is true only if the run that set it iterated the whole
\* transfers list and, for every listed transfer that was not concluded
\* locally, stored the fetched transfer or got a 404 for it; while a run is
\* under way, after it threw, and after it was interrupted, loadedTransfers
\* is false.
C4_LoadedOnlyAfterCompleteBootstrap ==
    /\ [](db.loadedTransfers =>
            /\ bootLog.complete
            /\ \A uri \in TransferUris : Covered(uri))
    /\ []((BootRunning \/ boot.pc = "thrown") => ~db.loadedTransfers)
    /\ [][(BootRunning /\ boot'.pc \in {"idle", "thrown"}) => ~db'.loadedTransfers]_vars

\* A bootstrap that completed although one listed transfer was gone (404)
\* or was already concluded locally.
C4_Witness ==
    /\ db.loadedTransfers
    /\ boot.pc = "returned"
    /\ Cardinality(bootLog.storedFetched) = FetchBatchSize
    /\ Cardinality(bootLog.got404 \cup bootLog.skipped) = 1

NoFailing == \A uri \in TransferUris : items[uri] # "failing"

FetchThrew == boot.pc = "thrown" /\ boot.cause = "fetch"

\* C5: a 404 never makes the bootstrap throw, the transfer is just not
\* stored, and once the run has set loadedTransfers every other transfer it
\* had to fetch is stored; a fetch that failed with another error makes the
\* run throw, and no transfer of the failed batch is stored.
C5_NotFoundSkippedOtherErrorsThrow ==
    /\ FetchThrew =>
          /\ \E i \in 1..Len(boot.failedBatch) :
                ServerStatus(boot.failedBatch[i]) = "error"
          /\ \A i \in 1..Len(boot.failedBatch) :
                boot.failedBatch[i] \notin bootLog.storedFetched
          /\ ~db.loadedTransfers
    /\ \A uri \in bootLog.got404 :
          /\ ServerStatus(uri) = "404"
          /\ uri \notin bootLog.storedFetched
          /\ db.transferRecords[uri] = "none"
    /\ db.loadedTransfers =>
          \A uri \in TransferUris :
             (ServerStatus(uri) = "ok" /\ uri \notin bootLog.skipped)
                => /\ uri \in bootLog.storedFetched
                   /\ db.transferRecords[uri] = ServerRecord(uri)
    /\ (boot.pc = "thrown" /\ NoFailing) => boot.cause = "list"

\* The run completed with a 404 among the fetched batch, the ten other
\* transfers stored.
C5_Witness ==
    /\ db.loadedTransfers
    /\ \E uri \in 1..FetchBatchSize : bootLog.got404 = {uri}
    /\ bootLog.storedFetched = TransferUris \ bootLog.got404

\* C6: a call of getOrCreateUserId asks the server for the user's data
\* exactly when there is no local user or the wallet's logStream.isBroken is
\* set, and then (unless the server request fails) stores it, which leaves a
\* user whose log stream is not broken; otherwise it makes no server request
\* and leaves the local storage as it was.
C6_ReprovisionExactlyWhenMissingOrBroken ==
    [][ prov'.calls # prov.calls =>
          LET needs == db.userId = "none" \/ db.isBroken
          IN /\ (prov'.serverReads = prov.serverReads + 1) <=> needs
             /\ (prov'.serverReads = prov.serverReads) <=> ~needs
             /\ needs /\ ~prov'.threw =>
                   /\ prov'.stores = prov.stores + 1
                   /\ db'.userId # "none"
                   /\ ~db'.isBroken
                   /\ ~db'.loadedTransfers
             /\ needs /\ prov'.threw => db' = db /\ prov'.stores = prov.stores
             /\ ~needs =>
                   /\ db' = db
                   /\ prov'.stores = prov.stores
                   /\ ~prov'.threw ]_vars

\* A user whose log stream was broken has been provisioned again.
C6_Witness ==
    /\ prov.calls = 2
    /\ prov.hadUser
    /\ prov.wasBroken
    /\ prov.stores = 2
    /\ ~db.isBroken

----------------------------------------------------------------------------
(***************************************************************************)
(* Properties of the interaction coordinator.                              *)
(***************************************************************************)
\* C7: whenever an operation sets pageModel or starts a further navigation
\* after one of its awaited calls completed, the current interaction id is
\* still the id the operation captured (the operation is not superseded).
C7_SupersededOperationNeverActs ==
    lastEffect.kind \in {"pageModel", "navigation"}
        => lastEffect.captured = lastEffect.current

StartedOps == { i \in 1..Len(ops) : ops[i].startInteraction }

\* C8: interactionId never decreases; a call of attempt() with
\* startInteraction = true raises it by exactly one and captures the new
\* value, a call with startInteraction = false leaves it as it is and
\* captures the current value, startInteraction() raises it by exactly one,
\* and no two interaction-starting attempts hold the same captured id.
C8_InteractionIdMonotonic ==
    /\ [][interactionId' >= interactionId]_vars
    /\ [][Len(ops') > Len(ops) =>
            LET new == ops'[Len(ops')]
            IN /\ Len(ops') = Len(ops) + 1
               /\ IF new.startInteraction
                  THEN interactionId' = interactionId + 1 /\ new.id = interactionId + 1
                  ELSE interactionId' = interactionId /\ new.id = interactionId]_vars
    /\ [][pushes' # pushes => interactionId' = interactionId + 1]_vars
    /\ [](\A i, j \in StartedOps : i # j => ops[i].id # ops[j].id)
    /\ [](\A i \in 1..Len(ops) : ops[i].id <= interactionId)

\* Two interaction-starting attempts and one startInteraction() call have
\* taken three different ids.
C8_Witness ==
    /\ Len(ops) = 2
    /\ StartedOps = {1, 2}
    /\ pushes = 1
    /\ interactionId = 3
    /\ ops[1].id # ops[2].id

----------------------------------------------------------------------------
(***************************************************************************)
(* Properties of the action manager.                                       *)
(***************************************************************************)
\* C9: when a resolving operation issues its request to the user context,
\* the promise its save() returned and every promise queued before it have
\* settled, the action it passes is the value the form had when the
\* operation was called, and, unless somebody else changed the record or a
\* later save was queued meanwhile, that value is what the storage holds.
C9_SaveSettledBeforeRequest ==
    \A n \in 1..Len(requests) :
       /\ requests[n].unsettled = {}
       /\ requests[n].action = requests[n].edited
       /\ (requests[n].record.state = "own" /\ ~requests[n].later)
             => requests[n].record = Record(requests[n].action)

\* A request issued with the second edit, after two queued saves wrote it.
C9_Witness ==
    /\ Len(requests) = 1
    /\ Len(promises) = 2
    /\ \E i \in 1..Len(ops) : ops[i].name = "executeConfigAccountAction" /\ ops[i].save = 2
    /\ requests[1].action = 2
    /\ requests[1].record = Record(2)

\* C10: a save whose write fails with RecordDoesNotExist resolves, adds no
\* alert and leaves the stored record as it is; a save that meets any other
\* storage error rejects.
C10_StaleEditDroppedSilently ==
    /\ [](\A k \in 1..Len(promises) :
            /\ promises[k].error = "RecordDoesNotExist" => promises[k].state = "resolved"
            /\ promises[k].error = "StorageError" => promises[k].state = "rejected")
    /\ [][\A k \in 1..Len(promises) :
            (promises[k].error = "none" /\ promises'[k].error = "RecordDoesNotExist")
               => /\ stored' = stored
                  /\ alerts' = alerts
                  /\ stored # Record(promises[k].original)]_vars

\* A save found the record deleted and resolved; nothing was written and no
\* alert was added.
C10_Witness ==
    /\ Len(promises) >= 1
    /\ promises[1].error = "RecordDoesNotExist"
    /\ promises[1].state = "resolved"
    /\ stored = Deleted
    /\ alerts = 0

\* C35: the writes of the saves are issued one at a time and in the order of
\* the calls of save(): the store() of a save goes on only when the promise
\* of the save before it has settled, so no two writes are under way
\* together; and a save issues a write exactly when its value differs from
\* the baseline record that its store() finds.
C35_WritesOneAtATimeInOrder ==
    /\ \A k \in 1..Len(promises) :
         /\ promises[k].state # "awaitUpdatePromise" =>
               \A j \in 1..(k - 1) : Settled(promises[j])
         /\ promises[k].written => promises[k].original # promises[k].value
         /\ (promises[k].state = "resolved" /\ ~promises[k].written) =>
               promises[k].original = promises[k].value
         /\ promises[k].state = "replaceActionRecord" => promises[k].written
    /\ Cardinality({ k \in 1..Len(promises) :
                       promises[k].state = "replaceActionRecord" }) <= 1

\* the first save has written its value; the second save, of the same
\* value, has resolved after it without a write
C35_Witness ==
    /\ Len(promises) = 2
    /\ promises[1].written /\ promises[1].state = "resolved"
    /\ promises[1].error = "none"
    /\ promises[2].state = "resolved" /\ ~promises[2].written
    /\ promises[2].value = promises[1].value

\* The value that the writes of the manager before its k-th save have put
\* into the storage: that of the last write that succeeded, or the initial
\* record.
LastPersisted(k) ==
    LET done == { j \in 1..(k - 1) :
                    /\ promises[j].written
                    /\ promises[j].state = "resolved"
                    /\ promises[j].error = "none" }
    IN IF done = {} THEN 0
       ELSE promises[CHOOSE j \in done : \A i \in done : i <= j].value

\* C36: the baseline that a save passes to replaceActionRecord as the old
\* value is the value that the manager has last persisted, or the initial
\* record; a write that failed has not advanced it.
C36_BaselineIsLastPersisted ==
    \A k \in 1..Len(promises) :
        promises[k].written => promises[k].original = LastPersisted(k)

\* C37: once saveAndClose() has been called, a call of save(), from the
\* timer of markDirty or from an operation of the page, adds no promise and
\* so no write, leaves currentValue as it is, and returns the promise of
\* the save that saveAndClose() made.
C37_ClosedManagerSavesNothing ==
    [][mgr.isClosed =>
         /\ mgr'.isClosed
         /\ mgr'.latestValue = mgr.latestValue
         /\ Len(promises') = Len(promises)
         /\ \A k \in 1..Len(promises) : promises'[k].value = promises[k].value
         /\ (Len(ops') > Len(ops)
               /\ ops'[Len(ops')].name = "executeConfigAccountAction") =>
                 /\ ops'[Len(ops')].save = Len(promises)
                 /\ ops'[Len(ops')].action = mgr.latestValue]_vars

\* the timer of markDirty has called save() after saveAndClose(): the one
\* edit has set one timer, and the only promise is that of saveAndClose()
C37_Witness ==
    /\ mgr.isClosed
    /\ mgr.form = 1
    /\ mgr.timers = 0
    /\ Len(promises) = 1
    /\ promises[1].value = 1

----------------------------------------------------------------------------
(***************************************************************************)
(* AppState: showing one action record.  showAction(actionId) reads the    *)
(* record and calls the show operation of its type; the show operation     *)
(* tests what the action needs and either sets the page model or deletes   *)
(* the record and goes back.  A payment request can be sealed from its     *)
(* page, and every page can save and remove the record through its action  *)
(* manager.  run.show is the navigation operation in progress and          *)
(* run.manager the operation of the page's action manager; an operation is *)
(*   "idle" or "done", or suspended at the await its pc names.             *)
(***************************************************************************)
ShownTypes ==
    { "AckAccountInfo", "ApproveDebtorName", "ConfigAccount", "UpdatePolicy",
      "PaymentRequest", "CreateTransfer", "AbortTransfer" }

\* the types that record the account data they were created for
ReferringTypes == { "AckAccountInfo", "ApproveDebtorName" }

MaxCalls == 3            \* calls by the user or a page in one behaviour
MaxSeals == 2            \* values of `new Date()` in one behaviour
MaxChanges == 1          \* changes of the local account data in one behaviour

Unset == -1              \* editedAmount is undefined

Amounts == { Unset, 0, 5 }

ActionValue(type, amount) ==
    [ actionType |-> type, sealedAt |-> 0, editedAmount |-> amount ]

NoAction == ActionValue("none", Unset)

\* this.uc.replaceActionRecord(original, null), of the storage module: the
\* record is deleted only if it still is the original; otherwise
\* RecordDoesNotExist is thrown.
removeActionRecord(record, original) ==
    IF record = Record(original)
    THEN [ error |-> "none", record |-> [ state |-> "deleted", value |-> original ] ]
    ELSE [ error |-> "RecordDoesNotExist", record |-> record ]

\* What the local storage and the accounts map hold about the account of the
\* action: whether the account is there, has a display name, still has the
\* data the action was created for, and has an identity.
LocalData ==
    { d \in [ present : BOOLEAN, named : BOOLEAN, same : BOOLEAN,
              identity : BOOLEAN, clock : {0}, changes : {0}, calls : {0} ] :
        ~d.present => (~d.named /\ ~d.same /\ ~d.identity) }

\* The test each show operation makes before it sets its page model.
CanShow(action, d) ==
    CASE action.actionType = "AckAccountInfo" ->
            d.present /\ d.named /\ d.same
      [] action.actionType = "ApproveDebtorName" ->
            d.present /\ d.same
      [] action.actionType \in { "ConfigAccount", "UpdatePolicy" } ->
            d.present
      [] action.actionType = "PaymentRequest" ->
            d.present /\ d.identity
      [] OTHER -> TRUE

\* action.editedAmount || 0n
AmountOrZeroMutKeepsUnset(editedAmount) == editedAmount

AmountOrZero(editedAmount) ==
    IF editedAmount = Unset \/ editedAmount = 0 THEN 0 ELSE editedAmount

\* catch (e) { if (e instanceof IvalidPaymentData) { /* ignore */ }
\*             else throw e }
RethrownMutAll(generation) == generation # "blob"

Rethrown(generation) == generation \notin { "blob", "IvalidPaymentData" }

\* pr0Blob !== undefined ? await pr0Blob.text() : 'INVALID PAYMENT REQUEST'
PaymentRequestText(generation) ==
    IF generation = "blob" THEN "pr0" ELSE "INVALID PAYMENT REQUEST"

\* $: amount = action.editedAmount ?? 0n, and the sentence the page of a
\* sealed payment request writes under the QR code
Description(action) ==
    LET amount == IF action.editedAmount = Unset THEN 0 ELSE action.editedAmount
    IN  IF amount = 0 THEN "generic payment request" ELSE "request to be paid"

\* createActionManager(action, createModifiedValue = () => action): the page
\* of a sealed payment request passes no createModifiedValue
defaultModifiedValueMutClearsSeal(action) == [ action EXCEPT !.sealedAt = 0 ]

defaultModifiedValue(action) == action

\* createModifiedValue of the page of an unsealed payment request: the action
\* with the amount of the form
formModifiedValue(action, amount) == [ action EXCEPT !.editedAmount = amount ]

ShowOp(name, pc, id, action, original, generation) ==
    [ name |-> name, pc |-> pc, id |-> id, action |-> action,
      original |-> original, generation |-> generation, page |-> 0 ]

IdleOp == ShowOp("none", "idle", 0, NoAction, NoAction, "none")

Free(op) == op.pc \in { "idle", "done" }

\* The page model of an action and the action manager its page has created:
\* managerAction is the manager's `action`, the record it believes is stored.
ActionPage(type, action, paymentRequest, amount, by) ==
    [ type |-> type, action |-> action, managerAction |-> action, latestValue |-> action,
      paymentRequest |-> paymentRequest, amount |-> amount, by |-> by,
      hasAccount |-> local.present ]

NoPage ==
    [ type |-> "none", action |-> NoAction, managerAction |-> NoAction, latestValue |-> NoAction,
      paymentRequest |-> "none", amount |-> Unset, by |-> 0,
      hasAccount |-> FALSE ]

\* What the last show operation has met and done.
NoTrace ==
    [ by |-> "none", missing |-> FALSE, rejected |-> FALSE, deleted |-> FALSE,
      pageSet |-> FALSE, wentBack |-> FALSE, superseded |-> FALSE,
      generation |-> "none", thrown |-> FALSE, finished |-> FALSE,
      alert |-> "none" ]

Started(type, missing) ==
    [ NoTrace EXCEPT !.by = type, !.missing = missing ]

\* The case of the account being gone, or its data having diverged from what
\* the action was created for.
AccountMissingOrDiverged(action, d) ==
    \/ ~d.present
    \/ action.actionType \in ReferringTypes /\ ~d.same

appRest == <<accountKnown, ops, pushes, lastEffect>>

\* if (this.interactionId === interactionId) this.pageModel.set({type, ...})
SetActionPage(op, type, paymentRequest, amount) ==
    IF interactionId = op.id
    THEN /\ pageModel' = type
         /\ pageData' = ActionPage(type, op.action, paymentRequest, amount, op.id)
         /\ trace' = [ trace EXCEPT !.pageSet = TRUE, !.finished = TRUE ]
    ELSE /\ UNCHANGED <<pageModel, pageData>>
         /\ trace' = [ trace EXCEPT !.superseded = TRUE, !.finished = TRUE ]

\* ---- showAction(actionId) ----
ReloadAction ==
    /\ Free(run.show)
    /\ local.calls < MaxCalls
    /\ interactionId' = attempt(interactionId, TRUE)
    /\ run' = [ run EXCEPT !.show =
                  ShowOp("showAction", "getActionRecord", interactionId',
                         NoAction, NoAction, "none") ]
    /\ local' = [ local EXCEPT !.calls = @ + 1 ]
    /\ UNCHANGED <<pageModel, alerts, rec, pageData, trace>>
    /\ UNCHANGED <<appRest, logVars, bootVars, mgrVars>>

\* showCreateTransferAction, showAbortTransferAction: no await, no test
ShowTransferAction(action, id) ==
    /\ pageModel' = IF action.actionType = "CreateTransfer"
                    THEN "CreateTransferModel" ELSE "AbortTransferModel"
    /\ pageData' = ActionPage(pageModel', action, "none", Unset, id)
    /\ run' = [ run EXCEPT !.show =
                  ShowOp(action.actionType, "done", id, action, action, "none") ]
    /\ trace' = [ Started(action.actionType, AccountMissingOrDiverged(action, local))
                    EXCEPT !.pageSet = TRUE, !.finished = TRUE ]
    /\ UNCHANGED <<alerts, rec, local>>

\* showAckAccountInfoAction, showApproveDebtorNameAction: up to the await of
\* getAccount / getKnownAccountData
ShowReferringAction(action, id) ==
    /\ run' = [ run EXCEPT !.show =
                  ShowOp(action.actionType, "getAccount", id, action, action, "none") ]
    /\ trace' = Started(action.actionType, FALSE)
    /\ UNCHANGED <<pageModel, alerts, rec, local, pageData>>

\* showConfigAccountAction, showUpdatePolicyAction: up to the await of
\* detectNonstandardAmountDisplay / detectPegStatus, or of replaceActionRecord
ShowAccountAction(action, id) ==
    /\ run' = [ run EXCEPT !.show =
                  ShowOp(action.actionType,
                         IF CanShow(action, local) THEN "detect"
                                                   ELSE "replaceActionRecord",
                         id, action, action, "none") ]
    /\ trace' = Started(action.actionType, AccountMissingOrDiverged(action, local))
    /\ UNCHANGED <<pageModel, alerts, rec, local, pageData>>

\* showPaymentRequestAction: up to the first await.  generatePr0Blob returns
\* a blob, or throws IvalidPaymentData, or throws something else.
ShowPaymentRequestAction(action, id) ==
    LET started == Started(action.actionType, AccountMissingOrDiverged(action, local))
        op(pc, generation) ==
            ShowOp(action.actionType, pc, id, action, action, generation)
    IN
    IF ~CanShow(action, local)
    THEN /\ run' = [ run EXCEPT !.show = op("replaceActionRecord", "none") ]
         /\ trace' = started
         /\ UNCHANGED <<pageModel, alerts, rec, local, pageData>>
    ELSE IF action.sealedAt # 0
    THEN \E generation \in { "blob", "IvalidPaymentData", "Error" } :
           IF Rethrown(generation)
           THEN \* else throw e: attempt() adds the alert of an unexpected error
                /\ run' = [ run EXCEPT !.show = op("done", generation) ]
                /\ alerts' = alerts + 1
                /\ trace' = [ started EXCEPT !.generation = generation,
                                !.thrown = TRUE, !.finished = TRUE,
                                !.alert = "unexpected" ]
                /\ UNCHANGED <<pageModel, rec, local, pageData>>
           ELSE /\ run' = [ run EXCEPT !.show =
                              op("getExpectedPaymentAmount", generation) ]
                /\ trace' = [ started EXCEPT !.generation = generation ]
                /\ UNCHANGED <<pageModel, alerts, rec, local, pageData>>
    ELSE \* the interaction id was captured in this same step
         /\ pageModel' = "PaymentRequestModel"
         /\ pageData' = ActionPage(pageModel', action, "none", Unset, id)
         /\ run' = [ run EXCEPT !.show = op("done", "none") ]
         /\ trace' = [ started EXCEPT !.pageSet = TRUE, !.finished = TRUE ]
         /\ UNCHANGED <<alerts, rec, local>>

\* showAction resumes after `await this.uc.getActionRecord(actionId)`
GetActionRecordResumes ==
    /\ run.show.name = "showAction"
    /\ run.show.pc = "getActionRecord"
    /\ IF interactionId # run.show.id
       THEN /\ run' = [ run EXCEPT !.show.pc = "done" ]
            /\ UNCHANGED <<interactionId, pageModel, alerts, rec, local,
                           pageData, trace>>
       ELSE IF rec.state # "own"
       THEN \* addAlert(ACTION_DOES_NOT_EXIST_MESSAGE)
            /\ run' = [ run EXCEPT !.show.pc = "done" ]
            /\ alerts' = alerts + 1
            /\ trace' = [ NoTrace EXCEPT !.by = "showAction",
                                        !.alert = "ActionDoesNotExist" ]
            /\ UNCHANGED <<interactionId, pageModel, rec, local, pageData>>
       ELSE /\ interactionId' = attempt(interactionId, TRUE)
            /\ CASE rec.value.actionType \in { "CreateTransfer", "AbortTransfer" } ->
                      ShowTransferAction(rec.value, interactionId')
                [] rec.value.actionType \in ReferringTypes ->
                      ShowReferringAction(rec.value, interactionId')
                [] rec.value.actionType \in { "ConfigAccount", "UpdatePolicy" } ->
                      ShowAccountAction(rec.value, interactionId')
                [] OTHER ->
                      ShowPaymentRequestAction(rec.value, interactionId')
    /\ UNCHANGED <<appRest, logVars, bootVars, mgrVars>>

\* showAckAccountInfoAction / showApproveDebtorNameAction resume after the
\* account was read
GetAccountResumes ==
    /\ run.show.pc = "getAccount"
    /\ IF CanShow(run.show.action, local)
       THEN /\ SetActionPage(run.show,
                  IF run.show.action.actionType = "AckAccountInfo"
                  THEN "AckAccountInfoModel" ELSE "ApproveDebtorNameModel",
                  "none", Unset)
            /\ run' = [ run EXCEPT !.show.pc = "done" ]
       ELSE /\ run' = [ run EXCEPT !.show.pc = "replaceActionRecord" ]
            /\ trace' = [ trace EXCEPT !.missing =
                            AccountMissingOrDiverged(run.show.action, local) ]
            /\ UNCHANGED <<pageModel, pageData>>
    /\ UNCHANGED <<interactionId, alerts, rec, local>>
    /\ UNCHANGED <<appRest, logVars, bootVars, mgrVars>>

\* showConfigAccountAction / showUpdatePolicyAction resume after the await
DetectResumes ==
    /\ run.show.pc = "detect"
    /\ SetActionPage(run.show,
          IF run.show.action.actionType = "ConfigAccount"
          THEN "ConfigAccountModel" ELSE "UpdatePolicyModel",
          "none", Unset)
    /\ run' = [ run EXCEPT !.show.pc = "done" ]
    /\ UNCHANGED <<interactionId, alerts, rec, local>>
    /\ UNCHANGED <<appRest, logVars, bootVars, mgrVars>>

\* showPaymentRequestAction resumes after `await pr0Blob.text()` and
\* `await this.uc.getExpectedPaymentAmount(...)`
GetExpectedPaymentAmountResumes ==
    /\ run.show.pc = "getExpectedPaymentAmount"
    /\ SetActionPage(run.show, "SealedPaymentRequestModel",
          PaymentRequestText(run.show.generation),
          IF run.show.generation = "blob"
          THEN AmountOrZero(run.show.action.editedAmount) ELSE Unset)
    /\ run' = [ run EXCEPT !.show.pc = "done" ]
    /\ UNCHANGED <<interactionId, alerts, rec, local>>
    /\ UNCHANGED <<appRest, logVars, bootVars, mgrVars>>

\* a show operation resumes after `await this.uc.replaceActionRecord(action,
\* null)`: checkAndGoBack(), or the RecordDoesNotExist alert
DeleteResumes ==
    /\ run.show.pc = "replaceActionRecord"
    /\ LET r == removeActionRecord(rec, run.show.action) IN
       IF r.error # "none"
       THEN /\ alerts' = alerts + 1
            /\ run' = [ run EXCEPT !.show.pc = "done" ]
            /\ trace' = [ trace EXCEPT !.rejected = TRUE, !.finished = TRUE,
                            !.alert = r.error ]
            /\ UNCHANGED <<interactionId, rec>>
       ELSE /\ rec' = r.record
            /\ UNCHANGED alerts
            /\ IF interactionId = run.show.id
               THEN \* goBack() is showActions()
                    /\ interactionId' = attempt(interactionId, TRUE)
                    /\ run' = [ run EXCEPT !.show =
                                  ShowOp("showActions", "createLiveQuery",
                                         interactionId', NoAction, NoAction, "none") ]
                    /\ trace' = [ trace EXCEPT !.deleted = TRUE, !.wentBack = TRUE,
                                    !.finished = TRUE ]
               ELSE /\ run' = [ run EXCEPT !.show.pc = "done" ]
                    /\ trace' = [ trace EXCEPT !.deleted = TRUE,
                                    !.superseded = TRUE, !.finished = TRUE ]
                    /\ UNCHANGED interactionId
    /\ UNCHANGED <<pageModel, local, pageData>>
    /\ UNCHANGED <<appRest, logVars, bootVars, mgrVars>>

\* showActions resumes after `await createLiveQuery(...)`
CreateLiveQueryResumes ==
    /\ run.show.pc = "createLiveQuery"
    /\ pageModel' = IF interactionId = run.show.id THEN "ActionsModel" ELSE pageModel
    /\ run' = [ run EXCEPT !.show.pc = "done" ]
    /\ UNCHANGED <<interactionId, alerts, rec, local, pageData, trace>>
    /\ UNCHANGED <<appRest, logVars, bootVars, mgrVars>>

\* The account is removed, or its data changes, by a synchronisation with the
\* server.
LocalDataChanges ==
    /\ local.changes < MaxChanges
    /\ \E d \in { [ local EXCEPT !.present = FALSE, !.named = FALSE,
                                 !.same = FALSE, !.identity = FALSE ],
                  [ local EXCEPT !.same = FALSE ] } :
         /\ d # local
         /\ local' = [ d EXCEPT !.changes = @ + 1 ]
    /\ UNCHANGED <<rec, run, pageData, trace>>
    /\ UNCHANGED <<appVars, logVars, bootVars, mgrVars>>

\* ---- the action manager of the page of a payment request ----
ManagerPages == { "PaymentRequestModel", "SealedPaymentRequestModel" }

\* createModifiedValue() of the manager of the page shown
ModifiedValues ==
    IF pageModel = "PaymentRequestModel"
    THEN { formModifiedValue(pageData.action, amount) : amount \in Amounts }
    ELSE { defaultModifiedValue(pageData.action) }

ManagerOp(name, id, value) ==
    [ ShowOp(name, "store", id, value, pageData.managerAction, "none")
        EXCEPT !.page = pageData.by ]

\* save(), called by the page's timer: latestValue = createModifiedValue();
\* store() runs up to `await updatePromise`.
ManagerSave ==
    /\ pageModel \in ManagerPages
    /\ Free(run.manager)
    /\ local.calls < MaxCalls
    /\ \E value \in ModifiedValues :
         /\ pageData' = [ pageData EXCEPT !.latestValue = value ]
         /\ run' = [ run EXCEPT !.manager = ManagerOp("save", 0, value) ]
    /\ local' = [ local EXCEPT !.calls = @ + 1 ]
    /\ UNCHANGED <<interactionId, pageModel, alerts, rec, trace>>
    /\ UNCHANGED <<appRest, logVars, bootVars, mgrVars>>

\* sealPaymentRequestAction(actionManager): actionManager.save(), then
\* attempt() up to `await saveActionPromise`
SealPaymentRequestAction ==
    /\ pageModel = "PaymentRequestModel"
    /\ Free(run.manager)
    /\ local.calls < MaxCalls
    /\ interactionId' = attempt(interactionId, TRUE)
    /\ \E value \in ModifiedValues :
         /\ pageData' = [ pageData EXCEPT !.latestValue = value ]
         /\ run' = [ run EXCEPT !.manager = ManagerOp("seal", interactionId', value) ]
    /\ local' = [ local EXCEPT !.calls = @ + 1 ]
    /\ UNCHANGED <<pageModel, alerts, rec, trace>>
    /\ UNCHANGED <<appRest, logVars, bootVars, mgrVars>>

\* remove(): attempt() up to the await in store(latestValue)
ManagerRemove ==
    /\ pageModel \in ManagerPages
    /\ Free(run.manager)
    /\ local.calls < MaxCalls
    /\ interactionId' = attempt(interactionId, TRUE)
    /\ run' = [ run EXCEPT !.manager =
                  ManagerOp("remove", interactionId', pageData.latestValue) ]
    /\ local' = [ local EXCEPT !.calls = @ + 1 ]
    /\ UNCHANGED <<pageModel, alerts, rec, pageData, trace>>
    /\ UNCHANGED <<appRest, logVars, bootVars, mgrVars>>

\* store(value) after `await updatePromise`: if (!equal(action, value))
\* await replaceActionRecord(action, action = value).  save() ignores
\* RecordDoesNotExist; remove() awaits store() itself.
ManagerStoreResumes ==
    /\ run.manager.pc = "store"
    /\ LET op == run.manager
           r == IF op.original = op.action
                THEN [ error |-> "none", record |-> rec ]
                ELSE replaceActionRecord(rec, op.original, op.action, FALSE)
           error == IF op.name = "remove" THEN r.error
                    ELSE IF ignoreRecordDoesNotExistErrors(r.error) = "resolved"
                    THEN "none" ELSE r.error
       IN
       /\ rec' = r.record
       /\ pageData' = IF pageData.by = op.page
                      THEN [ pageData EXCEPT !.managerAction = op.action ]
                      ELSE pageData
       /\ IF error # "none"
          THEN /\ alerts' = alerts + 1
               /\ run' = [ run EXCEPT !.manager.pc = "done" ]
          ELSE /\ UNCHANGED alerts
               /\ run' = [ run EXCEPT !.manager.pc =
                             CASE op.name = "save" -> "done"
                               [] op.name = "seal" -> "sealRecord"
                               [] OTHER -> "removeRecord" ]
    /\ UNCHANGED <<interactionId, pageModel, local, trace>>
    /\ UNCHANGED <<appRest, logVars, bootVars, mgrVars>>

\* {...action, sealedAt: new Date()}
Sealed(action, now) == [ action EXCEPT !.sealedAt = now ]

\* sealPaymentRequestAction resumes after
\* `await this.uc.replaceActionRecord(action, action = {...action, sealedAt})`
SealRecordResumes ==
    /\ run.manager.pc = "sealRecord"
    /\ local.clock < MaxSeals
    /\ LET op == run.manager
           sealed == Sealed(op.action, local.clock + 1)
           r == replaceActionRecord(rec, op.action, sealed, FALSE)
       IN
       /\ rec' = r.record
       /\ local' = [ local EXCEPT !.clock = @ + 1 ]
       /\ IF r.error # "none"
          THEN /\ alerts' = alerts + 1
               /\ run' = [ run EXCEPT !.manager.pc = "done" ]
          ELSE /\ UNCHANGED alerts
               /\ run' = [ run EXCEPT !.manager.pc = "setDefaultPayeeName",
                                      !.manager.action = sealed ]
    /\ UNCHANGED <<interactionId, pageModel, pageData, trace>>
    /\ UNCHANGED <<appRest, logVars, bootVars, mgrVars>>

\* sealPaymentRequestAction resumes after `await setDefaultPayeeName(...)`:
\* if (this.interactionId === interactionId) this.showAction(action.actionId)
SetDefaultPayeeNameResumes ==
    /\ run.manager.pc = "setDefaultPayeeName"
    /\ IF interactionId = run.manager.id
       THEN /\ Free(run.show)
            /\ interactionId' = attempt(interactionId, TRUE)
            /\ run' = [ run EXCEPT !.manager.pc = "done",
                          !.show = ShowOp("showAction", "getActionRecord",
                                          interactionId', NoAction, NoAction, "none") ]
       ELSE /\ run' = [ run EXCEPT !.manager.pc = "done" ]
            /\ UNCHANGED interactionId
    /\ UNCHANGED <<pageModel, alerts, rec, local, pageData, trace>>
    /\ UNCHANGED <<appRest, logVars, bootVars, mgrVars>>

\* remove() resumes after `await this.uc.replaceActionRecord(latestValue,
\* null)`: checkAndGoBack(), or the RecordDoesNotExist alert
RemoveRecordResumes ==
    /\ run.manager.pc = "removeRecord"
    /\ LET r == removeActionRecord(rec, run.manager.action) IN
       IF r.error # "none"
       THEN /\ alerts' = alerts + 1
            /\ run' = [ run EXCEPT !.manager.pc = "done" ]
            /\ UNCHANGED <<interactionId, rec>>
       ELSE /\ rec' = r.record
            /\ UNCHANGED alerts
            /\ IF interactionId = run.manager.id
               THEN /\ Free(run.show)
                    /\ interactionId' = attempt(interactionId, TRUE)
                    /\ run' = [ run EXCEPT !.manager.pc = "done",
                                  !.show = ShowOp("showActions", "createLiveQuery",
                                                  interactionId', NoAction,
                                                  NoAction, "none") ]
               ELSE /\ run' = [ run EXCEPT !.manager.pc = "done" ]
                    /\ UNCHANGED interactionId
    /\ UNCHANGED <<pageModel, local, pageData, trace>>
    /\ UNCHANGED <<appRest, logVars, bootVars, mgrVars>>

InitShow ==
    /\ AppIdle
    /\ MgrIdle
    /\ LogIdle
    /\ BootIdle
    /\ rec \in { Record(ActionValue(type, Unset)) : type \in ShownTypes }
    \* the action was created for an account that was there
    /\ local \in { d \in LocalData :
                     /\ d.present /\ d.same
                     /\ ~d.named => rec.value.actionType = "AckAccountInfo"
                     /\ ~d.identity => rec.value.actionType = "PaymentRequest" }
    /\ run = [ show |-> IdleOp, manager |-> IdleOp ]
    /\ pageData = NoPage
    /\ trace = NoTrace

NextShow ==
    \/ ReloadAction
    \/ GetActionRecordResumes
    \/ GetAccountResumes
    \/ DetectResumes
    \/ GetExpectedPaymentAmountResumes
    \/ DeleteResumes
    \/ CreateLiveQueryResumes
    \/ LocalDataChanges
    \/ StartInteraction
    \/ ManagerSave
    \/ SealPaymentRequestAction
    \/ ManagerRemove
    \/ ManagerStoreResumes
    \/ SealRecordResumes
    \/ SetDefaultPayeeNameResumes
    \/ RemoveRecordResumes

SpecShow == InitShow /\ [][NextShow]_vars

----------------------------------------------------------------------------
\* C11: whenever a show operation of any action type has finished for an
\* action whose account is gone, or whose data has diverged from what the
\* action was created for, the record is deleted, the page model was not set
\* by the operation, and go-back was invoked if the interaction was still
\* current (the case of the storage rejecting the deletion is left out).
\* showCreateTransferAction and showAbortTransferAction make no such test:
\* they set the page model with accountData undefined and keep the record.
C11_MissingAccountDeletesAndGoesBack ==
    (trace.finished /\ trace.missing /\ ~trace.rejected) =>
        /\ trace.deleted
        /\ ~trace.pageSet
        /\ ~trace.superseded => trace.wentBack

\* The same for the types that make the test: it holds.
TestingTypesDeleteAndGoBack ==
    ( /\ trace.finished /\ trace.missing /\ ~trace.rejected
      /\ trace.by \notin { "CreateTransfer", "AbortTransfer" } ) =>
        /\ trace.deleted
        /\ rec.state = "deleted"
        /\ ~trace.pageSet
        /\ ~trace.superseded => trace.wentBack

\* C18: once sealedAt of the payment request is set, no step of showing,
\* saving through an action manager, removing or sealing again clears or
\* changes it; the record can only be deleted, and stays deleted.
C18_SealIsOneWay ==
    [][ /\ (rec.state = "own" /\ rec.value.sealedAt # 0) =>
              /\ rec'.value.sealedAt = rec.value.sealedAt
              /\ rec'.state \in { "own", "deleted" }
        /\ (rec.state = "deleted" /\ rec.value.sealedAt # 0) => rec' = rec
      ]_vars

\* the manager of the page of the unsealed request has sealed a second time:
\* the storage rejected it
C18_Witness ==
    /\ rec.state = "own"
    /\ rec.value.sealedAt = 1
    /\ local.clock = 2
    /\ run.manager.name = "seal"
    /\ run.manager.pc = "done"

\* C19: when the generation of a sealed payment request throws
\* IvalidPaymentData, showPaymentRequestAction throws nothing and raises no
\* alert, and the page model it sets (if the interaction is still current) is
\* the SealedPaymentRequestModel with 'INVALID PAYMENT REQUEST'; any other
\* generation error is thrown to attempt(), which raises the alert of an
\* unexpected error, and no page model is set.
C19_InvalidPaymentDataGivesPlaceholder ==
    /\ (trace.by = "PaymentRequest" /\ trace.generation = "IvalidPaymentData") =>
          /\ ~trace.thrown
          /\ trace.alert = "none"
          /\ (trace.finished /\ ~trace.superseded) => trace.pageSet
          /\ trace.pageSet =>
                /\ pageData.type = "SealedPaymentRequestModel"
                /\ pageData.paymentRequest = "INVALID PAYMENT REQUEST"
    /\ (trace.by = "PaymentRequest" /\ trace.generation = "Error") =>
          /\ trace.thrown
          /\ trace.alert = "unexpected"
          /\ ~trace.pageSet

C19_Witness ==
    /\ trace.generation = "IvalidPaymentData"
    /\ trace.pageSet
    /\ pageModel = "SealedPaymentRequestModel"
    /\ pageData.paymentRequest = "INVALID PAYMENT REQUEST"
    /\ alerts = 0

\* C20: a payment request whose editedAmount is 0 or unset is sealed like any
\* other; the sealed page is generated with amount 0 and describes a generic
\* payment request, and with a non-zero amount it is generated with that
\* amount and describes a request for it.
C20_ZeroAmountIsGenericRequest ==
    (pageData.type = "SealedPaymentRequestModel" /\ pageData.paymentRequest = "pr0") =>
        LET editedAmount == pageData.action.editedAmount IN
        /\ pageData.action.sealedAt # 0
        /\ editedAmount \in { Unset, 0 } =>
              /\ pageData.amount = 0
              /\ Description(pageData.action) = "generic payment request"
        /\ editedAmount \notin { Unset, 0 } =>
              /\ pageData.amount = editedAmount
              /\ Description(pageData.action) = "request to be paid"

\* sealPaymentRequestAction has sealed a request with no amount, and its
\* page is shown
C20_Witness ==
    /\ pageModel = "SealedPaymentRequestModel"
    /\ pageData.paymentRequest = "pr0"
    /\ pageData.action.editedAmount = Unset
    /\ pageData.amount = 0
    /\ local.clock = 1
    /\ rec = Record(pageData.action)

----------------------------------------------------------------------------
(***************************************************************************)
(* AppState: showCreateAccountAction (for CreateAccount and ApprovePeg     *)
(* actions) and approveAccountCreationAction.  The debtor's data is stood  *)
(* for by the URI of its latest debtor info document; the action was       *)
(* created with ActionUri.  local is the account as the server has it.     *)
(***************************************************************************)
ActionUri == 1           \* action.latestDebtorInfoUri, action.peg.latestDebtorInfo.uri

MaxCreateCalls == 2      \* calls by the user or the page in one behaviour

DebtorInfoUris == { ActionUri, 2 }

NoBase == [ debtorData |-> 0, debtorDataSource |-> "none", hasDebtorInfo |-> FALSE ]

\* obtainBaseDebtorData(account, latestDebtorInfoUri)
obtainBaseDebtorDataMutInfoFirst(account) ==
    [ debtorData |-> account.data,
      debtorDataSource |-> IF account.hasInfo THEN "info"
                           ELSE IF account.named THEN "knowledge" ELSE "uri",
      hasDebtorInfo |-> account.hasInfo ]

obtainBaseDebtorData(account) ==
    [ debtorData |-> account.data,
      debtorDataSource |-> IF account.named THEN "knowledge"
                           ELSE IF account.hasInfo THEN "info" ELSE "uri",
      hasDebtorInfo |-> account.hasInfo ]

NoState ==
    [ defined |-> FALSE, accountInitializationInProgress |-> FALSE, base |-> NoBase ]

\* initializeAccountCreationState: accountInitializationInProgress: false,
\* debtorData, debtorDataSource, hasDebtorInfo
CreationState(base, inProgress) ==
    [ defined |-> TRUE, accountInitializationInProgress |-> inProgress, base |-> base ]

CreateValue(type, state, ignore) ==
    [ actionType |-> type, accountCreationState |-> state,
      ignoreCoinMismatch |-> ignore ]

NoCreateValue == CreateValue("none", NoState, FALSE)

\* createAccountData, and account.display.debtorName !== undefined of the
\* account that ensureAccountExists returned
NoCreateAccountData == [ defined |-> FALSE, named |-> FALSE, base |-> NoBase ]

\* const { debtorData, debtorDataSource, hasDebtorInfo } =
\*   action.accountCreationState ?? await this.uc.obtainBaseDebtorData(...)
BaseData(action, fresh) ==
    IF action.accountCreationState.defined
    THEN action.accountCreationState.base
    ELSE fresh

\* action.actionType === 'CreateAccount' && debtorDataSource === 'uri' &&
\*   debtorData.latestDebtorInfo.uri !== latestDebtorInfoUri
Obsolete(action, base) ==
    /\ action.actionType = "CreateAccount"
    /\ base.debtorDataSource = "uri"
    /\ base.debtorData # ActionUri

\* !hasDebtorInfo && debtorDataSource === 'knowledge' &&
\*   debtorData.latestDebtorInfo.uri !== action.peg.latestDebtorInfo.uri
coinMismatchMutIgnoresSource(data) ==
    ~data.base.hasDebtorInfo /\ data.base.debtorData # ActionUri

coinMismatch(data) ==
    /\ ~data.base.hasDebtorInfo
    /\ data.base.debtorDataSource = "knowledge"
    /\ data.base.debtorData # ActionUri

\* approveAccountCreationAction: which of the three requests is made
InitializationMutForgetsCrash(inProgress, isNewAccount) ==
    IF isNewAccount THEN "initializeNewAccount" ELSE "confirmInitializedAccount"

Initialization(inProgress, isNewAccount) ==
    IF inProgress /\ ~isNewAccount THEN "finishAccountInitialization"
    ELSE IF isNewAccount THEN "initializeNewAccount"
    ELSE "confirmInitializedAccount"

CreateOp(name, pc, id, action, data) ==
    [ name |-> name, pc |-> pc, id |-> id, action |-> action, data |-> data ]

IdleCreateOp == CreateOp("none", "idle", 0, NoCreateValue, NoCreateAccountData)

NoCreatePage ==
    [ type |-> "none", action |-> NoCreateValue, data |-> NoCreateAccountData,
      by |-> 0 ]

NoRequestsMade == [ finishAccountInitialization |-> 0, initializeNewAccount |-> 0,
              confirmInitializedAccount |-> 0 ]

\* What the last showCreateAccountAction, and the last
\* approveAccountCreationAction, have met and called.
NoOpTrace ==
    [ by |-> "none", fresh |-> NoBase, inProgress |-> FALSE, named |-> FALSE,
      decided |-> FALSE, called |-> NoRequestsMade, pageSet |-> FALSE,
      knownPeg |-> FALSE, valid |-> FALSE, superseded |-> FALSE,
      after |-> "none", deleted |-> FALSE, current |-> FALSE,
      caught |-> "none", dataDefined |-> FALSE, stateDefined |-> FALSE ]

NoCreateTrace == [ show |-> NoOpTrace, approve |-> NoOpTrace ]

\* checkAndGoCreateAccount, checkAndGoApprovePeg, checkAndGoOverrideCoin
SetCreatePage(op, type) ==
    IF interactionId = op.id
    THEN /\ pageModel' = type
         /\ pageData' = [ type |-> type, action |-> op.action, data |-> op.data,
                          by |-> op.id ]
    ELSE UNCHANGED <<pageModel, pageData>>

\* action.actionType === 'ApprovePeg' && debtorName !== undefined
KnownPegAccount(op) ==
    op.action.actionType = "ApprovePeg" /\ op.data.defined /\ op.data.named

\* action.accountCreationState?.accountInitializationInProgress === true &&
\*   debtorName !== undefined
CrashHappenedMutNever(op) == FALSE

CrashHappened(op) ==
    /\ op.action.accountCreationState.defined
    /\ op.action.accountCreationState.accountInitializationInProgress
    /\ op.data.defined /\ op.data.named

\* showCreateAccountAction after createAccountData is settled: the crash
\* test, then up to the next await or to the page model.
Decide(op, met) ==
    LET knownPegAccount == KnownPegAccount(op)
        crash == CrashHappened(op)
        decided == [ met EXCEPT !.decided = TRUE, !.knownPeg = knownPegAccount ]
    IN
    IF crash
    THEN /\ run' = [ run EXCEPT !.show =
                       [ op EXCEPT !.pc = "finishAccountInitialization" ] ]
         /\ trace' = [ trace EXCEPT !.show =
                         [ decided EXCEPT !.called.finishAccountInitialization = @ + 1 ] ]
         /\ UNCHANGED <<pageModel, pageData>>
    ELSE IF knownPegAccount
    THEN /\ run' = [ run EXCEPT !.show = [ op EXCEPT !.pc = "clearState" ] ]
         /\ trace' = [ trace EXCEPT !.show = decided ]
         /\ UNCHANGED <<pageModel, pageData>>
    ELSE /\ SetCreatePage(op, "CreateAccountModel")
         /\ run' = [ run EXCEPT !.show = [ op EXCEPT !.pc = "done" ] ]
         /\ trace' = [ trace EXCEPT !.show =
                         [ decided EXCEPT !.pageSet = (interactionId = op.id),
                                          !.superseded = (interactionId # op.id) ] ]

\* showAction(actionId), called by the user or by the page's reload
ReloadCreateAction ==
    /\ Free(run.show)
    /\ local.calls < MaxCreateCalls
    /\ interactionId' = attempt(interactionId, TRUE)
    /\ run' = [ run EXCEPT !.show =
                  CreateOp("showAction", "getActionRecord", interactionId',
                           NoCreateValue, NoCreateAccountData) ]
    /\ local' = [ local EXCEPT !.calls = @ + 1 ]
    /\ UNCHANGED <<pageModel, alerts, rec, pageData, trace>>
    /\ UNCHANGED <<appRest, logVars, bootVars, mgrVars>>

ShowThrows(op) ==
    /\ alerts' = alerts + 1
    /\ run' = [ run EXCEPT !.show = [ op EXCEPT !.pc = "done" ] ]

\* the catch branch of showCreateAccountAction for InvalidCoinUri,
\* DocumentFetchError and InvalidDocument:
\*   assert(createAccountData === undefined)
\*   assert(action.accountCreationState === undefined)
CatchAssertionsHold(op) ==
    ~op.data.defined /\ ~op.action.accountCreationState.defined

\* What the catch branch met.
Caught(met, op, error) ==
    [ met EXCEPT !.caught = error, !.dataDefined = op.data.defined,
                 !.stateDefined = op.action.accountCreationState.defined ]

\* The catch branch: it goes on to the crash test when its assertions hold;
\* a failed assertion is thrown to attempt(), which alerts.
CatchIgnoredError(op, error) ==
    IF CatchAssertionsHold(op)
    THEN /\ Decide(op, Caught(trace.show, op, error))
         /\ UNCHANGED alerts
    ELSE /\ ShowThrows(op)
         /\ trace' = [ trace EXCEPT !.show = Caught(trace.show, op, error) ]
         /\ UNCHANGED <<pageModel, pageData>>

\* showAction resumes after `await getActionRecord`, and
\* showCreateAccountAction runs up to `await ensureAccountExists`
GetCreateActionRecordResumes ==
    /\ run.show.name = "showAction"
    /\ run.show.pc = "getActionRecord"
    /\ IF interactionId # run.show.id
       THEN /\ run' = [ run EXCEPT !.show.pc = "done" ]
            /\ UNCHANGED <<interactionId, alerts, trace>>
       ELSE IF rec.state # "own"
       THEN /\ run' = [ run EXCEPT !.show.pc = "done" ]
            /\ alerts' = alerts + 1
            /\ UNCHANGED <<interactionId, trace>>
       ELSE /\ interactionId' = attempt(interactionId, TRUE)
            /\ run' = [ run EXCEPT !.show =
                          CreateOp("showCreateAccountAction", "ensureAccountExists",
                                   interactionId', rec.value, NoCreateAccountData) ]
            /\ trace' = [ trace EXCEPT !.show =
                            [ NoOpTrace EXCEPT !.by = "showCreateAccountAction",
                                !.inProgress = rec.value.accountCreationState
                                                  .accountInitializationInProgress ] ]
            /\ UNCHANGED alerts
    /\ UNCHANGED <<pageModel, rec, local, pageData>>
    /\ UNCHANGED <<appRest, logVars, bootVars, mgrVars>>

\* obtainCreateAccountData resumes after `await ensureAccountExists`
EnsureAccountExistsResumes ==
    /\ run.show.pc = "ensureAccountExists"
    /\ LET op == run.show
           account == [ named |-> local.named, hasInfo |-> local.hasInfo,
                        data |-> local.data ]
           fresh == obtainBaseDebtorData(account)
           base == BaseData(op.action, fresh)
           data == [ defined |-> TRUE, named |-> account.named, base |-> base ]
           met == [ trace.show EXCEPT !.fresh = fresh, !.named = account.named ]
       IN
       \E outcome \in { "ok", "ServerSessionError", "InvalidCoinUri" } :
         CASE outcome = "ServerSessionError" ->
                /\ ShowThrows(op)
                /\ UNCHANGED <<pageModel, pageData, trace>>
           [] outcome = "InvalidCoinUri" ->
                \* caught: createAccountData stays undefined
                CatchIgnoredError(op, "InvalidCoinUri")
           [] OTHER ->
                /\ UNCHANGED alerts
                /\ IF op.action.accountCreationState.defined
                   THEN Decide([ op EXCEPT !.data = data ], met)
                   ELSE /\ run' = [ run EXCEPT !.show =
                                      [ op EXCEPT !.pc = "obtainBaseDebtorData",
                                                  !.data = [ data EXCEPT !.defined = FALSE ] ] ]
                        /\ trace' = [ trace EXCEPT !.show = met ]
                        /\ UNCHANGED <<pageModel, pageData>>
    /\ UNCHANGED <<interactionId, rec, local>>
    /\ UNCHANGED <<appRest, logVars, bootVars, mgrVars>>

\* obtainCreateAccountData resumes after `await obtainBaseDebtorData`, which
\* throws DocumentFetchError or InvalidDocument when a document is needed
ObtainBaseDebtorDataResumes ==
    /\ run.show.pc = "obtainBaseDebtorData"
    /\ LET op == run.show IN
       \E outcome \in { "ok", "DocumentFetchError" } :
         IF \/ outcome = "DocumentFetchError" /\ op.data.base.debtorDataSource # "knowledge"
            \/ outcome = "ok" /\ Obsolete(op.action, op.data.base)
         THEN CatchIgnoredError([ op EXCEPT !.data = NoCreateAccountData ],
                                IF outcome = "ok" THEN "InvalidDocument" ELSE outcome)
         ELSE /\ outcome = "ok"
              /\ run' = [ run EXCEPT !.show =
                            [ op EXCEPT !.pc = "initializeAccountCreationState",
                                        !.data.defined = TRUE ] ]
              /\ UNCHANGED <<pageModel, pageData, trace, alerts>>
    /\ UNCHANGED <<interactionId, rec, local>>
    /\ UNCHANGED <<appRest, logVars, bootVars, mgrVars>>

\* initializeAccountCreationState resumes after `await replaceActionRecord(
\* action, action = {...action, accountCreationState})`
InitializeAccountCreationStateResumes ==
    /\ run.show.pc = "initializeAccountCreationState"
    /\ LET op == run.show
           value == [ op.action EXCEPT !.accountCreationState =
                        CreationState(op.data.base, FALSE) ]
           r == replaceActionRecord(rec, op.action, value, FALSE)
       IN
       /\ rec' = r.record
       /\ IF r.error # "none"
          THEN /\ ShowThrows(op)
               /\ UNCHANGED <<pageModel, pageData, trace>>
          ELSE /\ Decide([ op EXCEPT !.action = value ], trace.show)
               /\ UNCHANGED alerts
    /\ UNCHANGED <<interactionId, local>>
    /\ UNCHANGED <<appRest, logVars, bootVars, mgrVars>>

\* showCreateAccountAction resumes after `await finishAccountInitialization`
FinishAccountInitializationResumes ==
    /\ run.show.pc = "finishAccountInitialization"
    /\ \E outcome \in { "ok", "ServerSessionError" } :
         IF outcome = "ServerSessionError"
         THEN ShowThrows(run.show)
         ELSE /\ run' = [ run EXCEPT !.show.pc =
                            IF KnownPegAccount(run.show) THEN "clearState"
                                                         ELSE "replaceActionRecord" ]
              /\ UNCHANGED alerts
    /\ UNCHANGED <<interactionId, pageModel, rec, local, pageData, trace>>
    /\ UNCHANGED <<appRest, logVars, bootVars, mgrVars>>

\* resumes after `await replaceActionRecord(action, action = {...action,
\* accountCreationState: undefined})`
ClearStateResumes ==
    /\ run.show.pc = "clearState"
    /\ LET op == run.show
           value == [ op.action EXCEPT !.accountCreationState = NoState ]
           r == replaceActionRecord(rec, op.action, value, FALSE)
       IN
       /\ rec' = r.record
       /\ IF r.error # "none"
          THEN ShowThrows(op)
          ELSE /\ run' = [ run EXCEPT !.show =
                             [ op EXCEPT !.pc = "validatePeggedAccount",
                                         !.action = value ] ]
               /\ UNCHANGED alerts
    /\ UNCHANGED <<interactionId, pageModel, local, pageData, trace>>
    /\ UNCHANGED <<appRest, logVars, bootVars, mgrVars>>

\* resumes after `await validatePeggedAccount(...)`
ValidatePeggedAccountResumes ==
    /\ run.show.pc = "validatePeggedAccount"
    /\ LET op == run.show IN
       \E valid \in BOOLEAN :
         IF ~valid
         THEN /\ run' = [ run EXCEPT !.show.pc = "replaceActionRecord" ]
              /\ UNCHANGED <<pageModel, pageData, trace>>
         ELSE /\ SetCreatePage(op,
                    IF coinMismatch(op.data) /\ ~op.action.ignoreCoinMismatch
                    THEN "OverrideCoinModel" ELSE "ApprovePegModel")
              /\ run' = [ run EXCEPT !.show.pc = "done" ]
              /\ trace' = [ trace EXCEPT !.show.valid = TRUE,
                              !.show.pageSet = (interactionId = op.id),
                              !.show.superseded = (interactionId # op.id) ]
    /\ UNCHANGED <<interactionId, alerts, rec, local>>
    /\ UNCHANGED <<appRest, logVars, bootVars, mgrVars>>

\* resumes after `await replaceActionRecord(action, null)`: checkAndGoBack()
CreateDeleteResumes ==
    /\ run.show.name = "showCreateAccountAction"
    /\ run.show.pc = "replaceActionRecord"
    /\ LET r == removeActionRecord(rec, run.show.action) IN
       /\ rec' = r.record
       /\ IF r.error # "none"
          THEN /\ ShowThrows(run.show)
               /\ UNCHANGED interactionId
          ELSE /\ UNCHANGED alerts
               /\ IF interactionId = run.show.id
                  THEN /\ interactionId' = attempt(interactionId, TRUE)
                       /\ run' = [ run EXCEPT !.show =
                                     CreateOp("showActions", "createLiveQuery",
                                              interactionId', NoCreateValue,
                                              NoCreateAccountData) ]
                  ELSE /\ run' = [ run EXCEPT !.show.pc = "done" ]
                       /\ UNCHANGED interactionId
    /\ UNCHANGED <<pageModel, local, pageData, trace>>
    /\ UNCHANGED <<appRest, logVars, bootVars, mgrVars>>

\* approveAccountCreationAction(actionManager, data, pin, knownDebtor),
\* called by the CreateAccountModel page with its action manager and with
\* createAccountData of the account, whose display name is an input: up to
\* `await saveActionPromise`
ApproveAccountCreationAction ==
    /\ pageModel = "CreateAccountModel"
    /\ pageData.data.defined
    /\ Free(run.manager)
    /\ local.calls < MaxCreateCalls
    /\ interactionId' = attempt(interactionId, TRUE)
    /\ \E named \in BOOLEAN :
         /\ run' = [ run EXCEPT !.manager =
                       CreateOp("approveAccountCreationAction", "save",
                                interactionId', pageData.action,
                                [ pageData.data EXCEPT !.named = named ]) ]
         /\ trace' = [ trace EXCEPT !.approve =
                         [ NoOpTrace EXCEPT
                             !.by = "approveAccountCreationAction",
                             !.named = named,
                             !.inProgress = pageData.action.accountCreationState
                                               .accountInitializationInProgress ] ]
    /\ local' = [ local EXCEPT !.calls = @ + 1 ]
    /\ UNCHANGED <<pageModel, alerts, rec, pageData>>
    /\ UNCHANGED <<appRest, logVars, bootVars, mgrVars>>

\* resumes after `await saveActionPromise`: one of the three requests
ApproveSaveResumes ==
    /\ run.manager.name = "approveAccountCreationAction"
    /\ run.manager.pc = "save"
    /\ LET op == run.manager
           isNewAccount == ~op.data.named
           inProgress == op.action.accountCreationState.accountInitializationInProgress
           request == Initialization(inProgress, isNewAccount)
       IN
       /\ run' = [ run EXCEPT !.manager.pc = request ]
       /\ trace' = [ trace EXCEPT !.approve.decided = TRUE,
                                   !.approve.called[request] = @ + 1 ]
    /\ UNCHANGED <<interactionId, pageModel, alerts, rec, local, pageData>>
    /\ UNCHANGED <<appRest, logVars, bootVars, mgrVars>>

\* if (action.actionType === 'CreateAccount')
DeletedAfterApprovalMutAlways(action) == TRUE

DeletedAfterApproval(action) == action.actionType = "CreateAccount"

\* resumes after the request: the account has its display name; then
\* replaceActionRecord(action, null) for a CreateAccount action, or
\* showAction(action.actionId) for an ApprovePeg action
ApproveRequestResumes ==
    /\ run.manager.pc \in { "finishAccountInitialization", "initializeNewAccount",
                            "confirmInitializedAccount" }
    /\ LET op == run.manager IN
       \E outcome \in { "ok", "WrongPin", "ConflictingUpdate" } :
         IF outcome # "ok"
         THEN /\ alerts' = alerts + 1
              /\ run' = [ run EXCEPT !.manager.pc = "done" ]
              /\ trace' = [ trace EXCEPT !.approve.after = outcome ]
              /\ UNCHANGED <<interactionId, local>>
         ELSE /\ local' = [ local EXCEPT !.named = TRUE ]
              /\ UNCHANGED alerts
              /\ IF DeletedAfterApproval(op.action)
                 THEN /\ run' = [ run EXCEPT !.manager.pc = "replaceActionRecord" ]
                      /\ trace' = [ trace EXCEPT
                                      !.approve.after = "replaceActionRecord" ]
                      /\ UNCHANGED interactionId
                 ELSE IF interactionId = op.id
                 THEN /\ Free(run.show)
                      /\ interactionId' = attempt(interactionId, TRUE)
                      /\ run' = [ run EXCEPT !.manager.pc = "done",
                                    !.show = CreateOp("showAction", "getActionRecord",
                                                      interactionId', NoCreateValue,
                                                      NoCreateAccountData) ]
                      /\ trace' = [ trace EXCEPT !.approve.after = "showAction",
                                                  !.approve.current = TRUE ]
                 ELSE /\ run' = [ run EXCEPT !.manager.pc = "done" ]
                      /\ trace' = [ trace EXCEPT !.approve.after = "skipped" ]
                      /\ UNCHANGED interactionId
    /\ UNCHANGED <<pageModel, rec, pageData>>
    /\ UNCHANGED <<appRest, logVars, bootVars, mgrVars>>

\* resumes after `await replaceActionRecord(action, null)`:
\* if (this.interactionId === interactionId) this.showAccount(...)
ApproveDeleteResumes ==
    /\ run.manager.name = "approveAccountCreationAction"
    /\ run.manager.pc = "replaceActionRecord"
    /\ LET r == removeActionRecord(rec, run.manager.action) IN
       /\ rec' = r.record
       /\ IF r.error # "none"
          THEN /\ alerts' = alerts + 1
               /\ run' = [ run EXCEPT !.manager.pc = "done" ]
               /\ trace' = [ trace EXCEPT !.approve.after = r.error ]
               /\ UNCHANGED interactionId
          ELSE /\ UNCHANGED alerts
               /\ IF interactionId = run.manager.id
                  THEN /\ Free(run.show)
                       /\ interactionId' = attempt(interactionId, TRUE)
                       /\ run' = [ run EXCEPT !.manager.pc = "done",
                                     !.show = CreateOp("showAccount",
                                                "getAccountSortPriority",
                                                interactionId', NoCreateValue,
                                                NoCreateAccountData) ]
                       /\ trace' = [ trace EXCEPT !.approve.after = "showAccount",
                                       !.approve.deleted = TRUE,
                                       !.approve.current = TRUE ]
                  ELSE /\ run' = [ run EXCEPT !.manager.pc = "done" ]
                       /\ trace' = [ trace EXCEPT !.approve.after = "skipped",
                                       !.approve.deleted = TRUE ]
                       /\ UNCHANGED interactionId
    /\ UNCHANGED <<pageModel, local, pageData>>
    /\ UNCHANGED <<appRest, logVars, bootVars, mgrVars>>

\* showAccount resumes: the AccountModel page
ShowAccountHereResumes ==
    /\ run.show.name = "showAccount"
    /\ run.show.pc = "getAccountSortPriority"
    /\ pageModel' = IF interactionId = run.show.id THEN "AccountModel" ELSE pageModel
    /\ run' = [ run EXCEPT !.show.pc = "done" ]
    /\ UNCHANGED <<interactionId, alerts, rec, local, pageData, trace>>
    /\ UNCHANGED <<appRest, logVars, bootVars, mgrVars>>

\* An action that was never shown, or one whose account initialization was
\* interrupted: its state was stored when the account had no display name.
InitCreate ==
    /\ AppIdle
    /\ MgrIdle
    /\ LogIdle
    /\ BootIdle
    /\ local \in [ named : BOOLEAN, hasInfo : BOOLEAN, data : DebtorInfoUris,
                   calls : {0} ]
    /\ rec \in { Record(CreateValue(type, state, ignore)) :
                   type \in { "CreateAccount", "ApprovePeg" },
                   state \in { NoState }
                       \cup { CreationState(
                                obtainBaseDebtorData([ named |-> FALSE,
                                                       hasInfo |-> local.hasInfo,
                                                       data |-> ActionUri ]), TRUE) },
                   ignore \in BOOLEAN }
    /\ rec.value.ignoreCoinMismatch => rec.value.actionType = "ApprovePeg"
    /\ run = [ show |-> IdleCreateOp, manager |-> IdleCreateOp ]
    /\ pageData = NoCreatePage
    /\ trace = NoCreateTrace

NextCreate ==
    \/ ReloadCreateAction
    \/ GetCreateActionRecordResumes
    \/ EnsureAccountExistsResumes
    \/ ObtainBaseDebtorDataResumes
    \/ InitializeAccountCreationStateResumes
    \/ FinishAccountInitializationResumes
    \/ ClearStateResumes
    \/ ValidatePeggedAccountResumes
    \/ CreateDeleteResumes
    \/ CreateLiveQueryResumes
    \/ ApproveAccountCreationAction
    \/ ApproveSaveResumes
    \/ ApproveRequestResumes
    \/ ApproveDeleteResumes
    \/ ShowAccountHereResumes
    \/ StartInteraction

SpecCreate == InitCreate /\ [][NextCreate]_vars

----------------------------------------------------------------------------
Requests(called) ==
    called.finishAccountInitialization + called.initializeNewAccount
        + called.confirmInitializedAccount

\* C12: whenever showCreateAccountAction sets a page model with
\* createAccountData, its debtorData, debtorDataSource and hasDebtorInfo are
\* what obtainBaseDebtorData gives for the account just read from the
\* server, not what the action record had stored.  The code takes them from
\* action.accountCreationState whenever that is defined.
C12_DisplayDataDerivedAfresh ==
    (trace.show.pageSet /\ pageData.data.defined) =>
        pageData.data.base = trace.show.fresh

\* C14: with accountInitializationInProgress set and a display name on the
\* account, showCreateAccountAction and approveAccountCreationAction call
\* finishAccountInitialization and neither initializeNewAccount nor
\* confirmInitializedAccount; showCreateAccountAction never calls the latter
\* two, and a call of approveAccountCreationAction that gets past its save
\* makes exactly one of the three requests.
C14_InterruptedInitializationIsFinished ==
    /\ \A t \in { trace.show, trace.approve } :
         /\ Requests(t.called) <= 1
         /\ (t.decided /\ t.inProgress /\ t.named) =>
               /\ t.called.finishAccountInitialization = 1
               /\ Requests(t.called) = 1
         /\ t.called.finishAccountInitialization = 1 =>
               t.inProgress /\ t.named
    /\ trace.show.called.initializeNewAccount = 0
    /\ trace.show.called.confirmInitializedAccount = 0
    /\ trace.approve.decided => Requests(trace.approve.called) = 1

\* approveAccountCreationAction, called for an interrupted initialization,
\* has requested finishAccountInitialization
C14_Witness ==
    /\ trace.approve.inProgress /\ trace.approve.named
    /\ trace.approve.called.finishAccountInitialization = 1
    /\ run.manager.pc = "finishAccountInitialization"

\* C34: when the request of approveAccountCreationAction has succeeded, the
\* record of a CreateAccount action is deleted, and the account is shown if
\* the interaction is still the one of the call; the deletion is made also
\* when the interaction has been superseded, only showAccount is skipped.
\* The record of an ApprovePeg action is not deleted, and the action is
\* shown again if the interaction is still the one of the call.
C34_CreateAccountDeletedApprovePegKept ==
    LET t == trace.approve
        op == run.manager
    IN (t.by = "approveAccountCreationAction"
          /\ op.name = "approveAccountCreationAction") =>
        /\ t.after = "replaceActionRecord" =>
              /\ op.action.actionType = "CreateAccount"
              /\ op.pc = "replaceActionRecord"
        /\ t.after = "showAccount" =>
              /\ op.action.actionType = "CreateAccount"
              /\ t.deleted /\ t.current
              /\ rec.state = "deleted"
        /\ t.after = "showAction" =>
              /\ op.action.actionType = "ApprovePeg"
              /\ ~t.deleted /\ t.current
        /\ t.after = "skipped" =>
              /\ ~t.current
              /\ interactionId # op.id
              /\ t.deleted <=> op.action.actionType = "CreateAccount"
              /\ t.deleted => rec.state = "deleted"
        /\ op.action.actionType = "ApprovePeg" =>
              /\ ~t.deleted
              /\ t.after \notin { "replaceActionRecord", "showAccount",
                                  "RecordDoesNotExist" }
        /\ (op.pc = "done" /\ t.decided) => t.after # "none"

\* the record of a CreateAccount action has been deleted although the
\* interaction had been superseded
C34_Witness ==
    /\ trace.approve.after = "skipped"
    /\ trace.approve.deleted
    /\ run.manager.action.actionType = "CreateAccount"
    /\ rec.state = "deleted"

\* C38: whenever showCreateAccountAction catches InvalidCoinUri,
\* DocumentFetchError or InvalidDocument, createAccountData is undefined and
\* action.accountCreationState is undefined, also for an action shown again
\* after an earlier display has initialized its accountCreationState.
C38_CatchAssertionsHold ==
    trace.show.caught # "none" =>
        ~trace.show.dataDefined /\ ~trace.show.stateDefined

\* The errors of obtainBaseDebtorData, and the obsolete debtor info URI, are
\* met only by an action without accountCreationState, before
\* createAccountData is assigned.
DocumentErrorsMeetNoState ==
    trace.show.caught \in { "DocumentFetchError", "InvalidDocument" } =>
        ~trace.show.dataDefined /\ ~trace.show.stateDefined

\* C15: for an ApprovePeg action with a known peg account, the
\* ApprovePegModel is set only when there is no coin mismatch (debtor data
\* from 'knowledge', no debtor info, and another URI than the peg's) or
\* ignoreCoinMismatch is set; with a mismatch that is not ignored the
\* OverrideCoinModel is set instead.
C15_CoinMismatchMustBeOverridden ==
    LET mismatch == /\ ~pageData.data.base.hasDebtorInfo
                    /\ pageData.data.base.debtorDataSource = "knowledge"
                    /\ pageData.data.base.debtorData # ActionUri
    IN
    /\ pageData.type = "ApprovePegModel" =>
          /\ pageData.action.actionType = "ApprovePeg"
          /\ pageData.data.defined /\ pageData.data.named
          /\ ~mismatch \/ pageData.action.ignoreCoinMismatch
    /\ pageData.type = "OverrideCoinModel" =>
          /\ pageData.action.actionType = "ApprovePeg"
          /\ mismatch /\ ~pageData.action.ignoreCoinMismatch
    /\ (trace.show.knownPeg /\ trace.show.valid /\ trace.show.pageSet) =>
          pageData.type \in { "ApprovePegModel", "OverrideCoinModel" }

C15_Witness ==
    /\ pageModel = "OverrideCoinModel"
    /\ pageData.type = "OverrideCoinModel"
    /\ trace.show.knownPeg /\ trace.show.valid /\ trace.show.pageSet
    /\ ~pageData.action.ignoreCoinMismatch

\* C30: the data obtained for an account come from its knowledge whenever
\* the account has a display name, whether or not it has a debtor-info
\* reference; otherwise from the debtor info of the account if it has one;
\* otherwise from the URI of the action; and hasDebtorInfo tells whether the
\* account has a debtor-info reference.
C30_SourceByPriority ==
    trace.show.fresh # NoBase =>
        /\ trace.show.named => trace.show.fresh.debtorDataSource = "knowledge"
        /\ (~trace.show.named /\ local.hasInfo) =>
              trace.show.fresh.debtorDataSource = "info"
        /\ (~trace.show.named /\ ~local.hasInfo) =>
              trace.show.fresh.debtorDataSource = "uri"
        /\ trace.show.fresh.hasDebtorInfo <=> local.hasInfo

C30_Witness ==
    /\ trace.show.fresh.debtorDataSource = "knowledge"
    /\ trace.show.fresh.hasDebtorInfo
    /\ local.hasInfo
    /\ trace.show.pageSet

----------------------------------------------------------------------------
(***************************************************************************)
(* The operations that resolve an action: acknowlegeAckAccountInfoAction,  *)
(* and the operations of the shape of resolveApproveDebtorNameAction       *)
(* (resolveApproveAmountDisplayAction, resolveApprovePegAction and         *)
(* executeConfigAccountAction have the same body up to the request they    *)
(* make).  The record of the action carries the edit of the form and the   *)
(* `acknowledged` mark; the page keeps the action it was given.            *)
(***************************************************************************)
ResolvedTypes ==
    { "AckAccountInfo", "ApproveDebtorName", "ApproveAmountDisplay", "ApprovePeg",
      "ConfigAccount" }

ConflictClass ==
    { "ConflictingUpdate", "WrongPin", "UnprocessableEntity", "ResourceNotFound" }

\* The errors a request to the server ends with in this model.
RequestErrors == ConflictClass \cup { "ServerSessionError" }

MaxResolveCalls == 2

FormEdits == { 0, 1 }

ResolveValue(type, acknowledged, edit) ==
    [ actionType |-> type, acknowledged |-> acknowledged, edit |-> edit ]

NoResolveValue == ResolveValue("none", FALSE, 0)

\* The operation of each type of action
Resolution(type) ==
    CASE type = "AckAccountInfo" -> "acknowlegeAckAccountInfoAction"
      [] type = "ApproveDebtorName" -> "resolveApproveDebtorNameAction"
      [] type = "ApproveAmountDisplay" -> "resolveApproveAmountDisplayAction"
      [] type = "ApprovePeg" -> "resolveApprovePegAction"
      [] OTHER -> "executeConfigAccountAction"

\* { ...action, acknowledged: true }
Acknowledged(action) == [ action EXCEPT !.acknowledged = TRUE ]

\* An operation in progress: `action` is the variable of its closure,
\* `original` the action the manager of the page holds.
ResolveOp(name, pc, id, action, original) ==
    [ name |-> name, pc |-> pc, id |-> id, action |-> action,
      original |-> original ]

IdleResolveOp == ResolveOp("none", "idle", 0, NoResolveValue, NoResolveValue)

\* What the last resolution met: the record when the resolution started
\* (after the edits of the form were flushed), and the error it ended with.
NoResolveTrace ==
    [ by |-> "none", started |-> FALSE, start |-> Record(NoResolveValue),
      error |-> "none", finished |-> FALSE, wrote |-> FALSE ]

ResolutionFails(error) ==
    /\ alerts' = alerts + 1
    /\ run' = [ run EXCEPT !.manager.pc = "done" ]
    /\ trace' = [ trace EXCEPT !.error = error, !.finished = TRUE ]

\* if (this.interactionId === interactionId) this.showActions()
ResolutionSucceeds ==
    /\ UNCHANGED alerts
    /\ trace' = [ trace EXCEPT !.finished = TRUE ]
    /\ IF interactionId = run.manager.id
       THEN /\ Free(run.show)
            /\ interactionId' = attempt(interactionId, TRUE)
            /\ run' = [ run EXCEPT !.manager.pc = "done",
                          !.show = ResolveOp("showActions", "createLiveQuery",
                                             interactionId', NoResolveValue,
                                             NoResolveValue) ]
       ELSE /\ run' = [ run EXCEPT !.manager.pc = "done" ]
            /\ UNCHANGED interactionId

\* acknowlegeAckAccountInfoAction(action, account, pinForPegRemoval): up to
\* `await removePeg`, or up to `await replaceActionRecord` without a PIN
AcknowlegeAckAccountInfoAction ==
    /\ pageData.action.actionType = "AckAccountInfo"
    /\ Free(run.manager)
    /\ local.calls < MaxResolveCalls
    /\ interactionId' = attempt(interactionId, TRUE)
    /\ \E pinForPegRemoval \in BOOLEAN :
         run' = [ run EXCEPT !.manager =
                    ResolveOp("acknowlegeAckAccountInfoAction",
                              IF pinForPegRemoval THEN "removePeg"
                              ELSE "replaceActionRecord",
                              interactionId', pageData.action, pageData.action) ]
    /\ trace' = [ NoResolveTrace EXCEPT !.by = "acknowlegeAckAccountInfoAction",
                                        !.started = TRUE, !.start = rec ]
    /\ local' = [ local EXCEPT !.calls = @ + 1 ]
    /\ UNCHANGED <<pageModel, alerts, rec, pageData>>
    /\ UNCHANGED <<appRest, logVars, bootVars, mgrVars>>

\* resumes after `await this.uc.removePeg(account.exchange, pin)`
RemovePegResumes ==
    /\ run.manager.pc = "removePeg"
    /\ \E outcome \in { "ok" } \cup RequestErrors :
         IF outcome # "ok"
         THEN /\ ResolutionFails(outcome)
              /\ UNCHANGED local
         ELSE /\ local' = [ local EXCEPT !.pegRemoved = TRUE ]
              /\ run' = [ run EXCEPT !.manager.pc = "replaceActionRecord" ]
              /\ UNCHANGED <<alerts, trace>>
    /\ UNCHANGED <<interactionId, pageModel, rec, pageData>>
    /\ UNCHANGED <<appRest, logVars, bootVars, mgrVars>>

\* resumes after `await this.uc.replaceActionRecord(action,
\* action = { ...action, acknowledged: true })`
AcknowledgeRecordResumes ==
    /\ run.manager.name = "acknowlegeAckAccountInfoAction"
    /\ run.manager.pc = "replaceActionRecord"
    /\ LET acknowledged == Acknowledged(run.manager.action)
           r == replaceActionRecord(rec, run.manager.action, acknowledged, FALSE)
       IN
       /\ rec' = r.record
       /\ IF r.error # "none"
          THEN ResolutionFails(r.error)
          ELSE /\ run' = [ run EXCEPT !.manager.action = acknowledged,
                                      !.manager.pc = "updateAccountKnowledge" ]
               /\ trace' = [ trace EXCEPT !.wrote = TRUE ]
               /\ UNCHANGED alerts
    /\ UNCHANGED <<interactionId, pageModel, local, pageData>>
    /\ UNCHANGED <<appRest, logVars, bootVars, mgrVars>>

\* resumes after `await this.uc.updateAccountKnowledge(action, account)`:
\* the request has failed, or the knowledge is updated and the record of the
\* action removed
UpdateAccountKnowledgeResumes ==
    /\ run.manager.pc = "updateAccountKnowledge"
    /\ \E outcome \in { "ok" } \cup RequestErrors :
         IF outcome # "ok"
         THEN /\ ResolutionFails(outcome)
              /\ UNCHANGED rec
         ELSE /\ rec' = removeActionRecord(rec, run.manager.action).record
              /\ run' = [ run EXCEPT !.manager.pc = "getActionRecord" ]
              /\ UNCHANGED <<alerts, trace>>
    /\ UNCHANGED <<interactionId, pageModel, local, pageData>>
    /\ UNCHANGED <<appRest, logVars, bootVars, mgrVars>>

\* resumes after assert(await this.uc.getActionRecord(action.actionId) ===
\* undefined)
AssertRemovedResumes ==
    /\ run.manager.name = "acknowlegeAckAccountInfoAction"
    /\ run.manager.pc = "getActionRecord"
    /\ IF rec.state = "own"
       THEN /\ ResolutionFails("AssertionError")
            /\ UNCHANGED interactionId
       ELSE ResolutionSucceeds
    /\ UNCHANGED <<pageModel, rec, local, pageData>>
    /\ UNCHANGED <<appRest, logVars, bootVars, mgrVars>>

\* resolveApproveDebtorNameAction(actionManager, ...) and the operations of
\* its shape: actionManager.save() with the edit of the form, then attempt()
\* up to `await saveActionPromise`
ResolveAction ==
    /\ pageData.action.actionType \in ResolvedTypes \ { "AckAccountInfo" }
    /\ Free(run.manager)
    /\ local.calls < MaxResolveCalls
    /\ interactionId' = attempt(interactionId, TRUE)
    /\ \E edit \in FormEdits :
         run' = [ run EXCEPT !.manager =
                    ResolveOp(Resolution(pageData.action.actionType), "save",
                              interactionId',
                              [ pageData.action EXCEPT !.edit = edit ],
                              pageData.action) ]
    /\ trace' = [ NoResolveTrace EXCEPT
                    !.by = Resolution(pageData.action.actionType) ]
    /\ local' = [ local EXCEPT !.calls = @ + 1 ]
    /\ UNCHANGED <<pageModel, alerts, rec, pageData>>
    /\ UNCHANGED <<appRest, logVars, bootVars, mgrVars>>

\* resumes after `await saveActionPromise`: store() has written the edit if
\* there was one (a missing record is ignored by save()), and the request
\* is made
ResolveSaveResumes ==
    /\ run.manager.name # "acknowlegeAckAccountInfoAction"
    /\ run.manager.pc = "save"
    /\ LET op == run.manager
           r == IF op.original = op.action
                THEN [ error |-> "none", record |-> rec ]
                ELSE replaceActionRecord(rec, op.original, op.action, FALSE)
       IN
       /\ rec' = r.record
       /\ pageData' = [ pageData EXCEPT !.action = op.action ]
       /\ trace' = [ trace EXCEPT !.started = TRUE, !.start = r.record,
                                  !.wrote = (r.record # rec) ]
       /\ IF ignoreRecordDoesNotExistErrors(r.error) = "resolved" \/ r.error = "none"
          THEN run' = [ run EXCEPT !.manager.pc = "request" ]
          ELSE run' = [ run EXCEPT !.manager.pc = "done" ]
    /\ UNCHANGED <<interactionId, pageModel, alerts, local>>
    /\ UNCHANGED <<appRest, logVars, bootVars, mgrVars>>

\* resumes after the request that resolves the action: the request has
\* failed, or the action is resolved and its record removed
ResolveRequestResumes ==
    /\ run.manager.pc = "request"
    /\ \E outcome \in { "ok", "RecordDoesNotExist" } \cup RequestErrors :
         /\ outcome = "ok" => rec = Record(run.manager.action)
         /\ outcome = "RecordDoesNotExist" => rec # Record(run.manager.action)
         /\ IF outcome # "ok"
            THEN /\ ResolutionFails(outcome)
                 /\ UNCHANGED <<interactionId, rec>>
            ELSE /\ rec' = removeActionRecord(rec, run.manager.action).record
                 /\ ResolutionSucceeds
    /\ UNCHANGED <<pageModel, local, pageData>>
    /\ UNCHANGED <<appRest, logVars, bootVars, mgrVars>>

\* The page of an action of one of the types, as its show operation left it.
InitResolve ==
    /\ AppIdle
    /\ MgrIdle
    /\ LogIdle
    /\ BootIdle
    /\ rec \in { Record(ResolveValue(type, FALSE, 0)) : type \in ResolvedTypes }
    /\ local = [ calls |-> 0, pegRemoved |-> FALSE ]
    /\ run = [ show |-> IdleResolveOp, manager |-> IdleResolveOp ]
    /\ pageData = [ action |-> rec.value ]
    /\ trace = NoResolveTrace

NextResolve ==
    \/ AcknowlegeAckAccountInfoAction
    \/ RemovePegResumes
    \/ AcknowledgeRecordResumes
    \/ UpdateAccountKnowledgeResumes
    \/ AssertRemovedResumes
    \/ ResolveAction
    \/ ResolveSaveResumes
    \/ ResolveRequestResumes
    \/ CreateLiveQueryResumes
    \/ StartInteraction

SpecResolve == InitResolve /\ [][NextResolve]_vars

\* C13: when a resolution of an action ends with a conflict-class error, the
\* record of the action is still there and equals the record as it was when
\* the resolution started, after the edits of the form were flushed.
C13_ConflictLeavesRecordUnchanged ==
    (trace.finished /\ trace.started /\ trace.error \in ConflictClass
        /\ trace.start.state = "own") =>
        rec = trace.start

\* The operations that make one request after the flush do leave the record
\* as it was.
ResolveRequestConflictLeavesRecord ==
    (trace.finished /\ trace.started /\ trace.error \in ConflictClass
        /\ trace.start.state = "own"
        /\ trace.by # "acknowlegeAckAccountInfoAction") =>
        rec = trace.start

----------------------------------------------------------------------------
(***************************************************************************)
(* The operations that create an action for one account:                   *)
(* createCreateAccountAction, createConfigAccountAction and                *)
(* createUpdatePolicyAction.  `rec` is the table of action records, in     *)
(* the order of their actionId; `run` holds the calls made, whose awaits   *)
(* interleave; `local` is what the accounts map holds about the account    *)
(* of the coin, or of the account URI.                                     *)
(***************************************************************************)
MaxCreatorCalls == 2

UniqueTypes == { "ConfigAccount", "UpdatePolicy" }

CreatorOp(name, pc, id, type) ==
    [ name |-> name, pc |-> pc, id |-> id, type |-> type, valid |-> TRUE,
      actionId |-> 0, created |-> FALSE, made |-> 0, spawned |-> "none",
      showed |-> 0, justCreated |-> FALSE ]

NoShownAction == [ type |-> "none", actionId |-> 0, justCreated |-> FALSE ]

\* The records of the table that have the given type (all records are of
\* the one account).
OfType(records, type) == { i \in 1..Len(records) : records[i].actionType = type }

\* createActionRecord(action), of the storage module: the record is added
\* and gets the next actionId.
createActionRecord(records, type) ==
    [ records |-> Append(records, [ actionId |-> Len(records) + 1,
                                    actionType |-> type ]),
      actionId |-> Len(records) + 1 ]

\* this.uc.ensureUniqueAccountAction(action): in one transaction, the
\* record of this type and account if there is one, or else a new record.
ensureUniqueAccountAction(records, type) ==
    IF OfType(records, type) # {}
    THEN [ records |-> records,
           actionId |-> CHOOSE i \in OfType(records, type) : TRUE,
           created |-> FALSE ]
    ELSE [ records |-> createActionRecord(records, type).records,
           actionId |-> createActionRecord(records, type).actionId,
           created |-> TRUE ]

\* existingAccountUri !== undefined && data?.display.knownDebtor
KnownDebtorAccountMutAnyAccount(d) == d.indexed

KnownDebtorAccount(d) == d.indexed /\ d.hasData /\ d.knownDebtor

\* this.showAction(action.actionId, undefined,
\*                 { backToAccount: back, justCreated: created })
ShowActionArgumentsMutJustCreated(result) ==
    [ actionId |-> result.actionId, justCreated |-> TRUE ]

ShowActionArguments(result) ==
    [ actionId |-> result.actionId, justCreated |-> result.created ]

\* The operation i calls another operation, which calls attempt() and runs
\* up to its first await.
Spawn(i, finished, name, pc) ==
    /\ interactionId' = attempt(interactionId, TRUE)
    /\ run' = Append([ run EXCEPT ![i] = [ finished EXCEPT !.pc = "done",
                                                           !.spawned = name ] ],
                     [ CreatorOp(name, pc, interactionId', finished.type)
                         EXCEPT !.actionId = finished.showed,
                                !.justCreated = finished.justCreated ])

\* createCreateAccountAction(coinUri): parseCoinUri, the look-up in the
\* accounts map, then showAccount(existingAccountUri) or up to
\* `await this.uc.createCreateAccountAction(...)`
CreateCreateAccountAction ==
    /\ local.calls < MaxCreatorCalls
    /\ local' = [ local EXCEPT !.calls = @ + 1 ]
    /\ \E valid \in BOOLEAN :
         LET id == attempt(interactionId, TRUE)
             op == [ CreatorOp("createCreateAccountAction",
                               "createCreateAccountAction", id, "CreateAccount")
                       EXCEPT !.valid = valid ]
         IN
         IF ~valid
         THEN \* parseCoinUri throws InvalidCoinUri
              /\ interactionId' = id
              /\ run' = Append(run, [ op EXCEPT !.pc = "done" ])
              /\ alerts' = alerts + 1
         ELSE IF KnownDebtorAccount(local)
         THEN /\ interactionId' = attempt(id, TRUE)
              /\ run' = run \o << [ op EXCEPT !.pc = "done",
                                              !.spawned = "showAccount" ],
                                  CreatorOp("showAccount", "getAccountSortPriority",
                                            interactionId', "CreateAccount") >>
              /\ UNCHANGED alerts
         ELSE /\ interactionId' = id
              /\ run' = Append(run, op)
              /\ UNCHANGED alerts
    /\ UNCHANGED <<pageModel, rec, pageData, trace>>
    /\ UNCHANGED <<appRest, logVars, bootVars, mgrVars>>

\* resumes after `await this.uc.createCreateAccountAction(...)`:
\* if (this.interactionId === interactionId) this.showAction(actionId)
CreateCreateAccountActionResumes(i) ==
    /\ run[i].name = "createCreateAccountAction"
    /\ run[i].pc = "createCreateAccountAction"
    /\ LET r == createActionRecord(rec, "CreateAccount")
           finished == [ run[i] EXCEPT !.actionId = r.actionId, !.created = TRUE,
                                       !.made = @ + 1 ]
       IN
       /\ rec' = r.records
       /\ IF interactionId = run[i].id
          THEN Spawn(i, [ finished EXCEPT !.showed = r.actionId ],
                     "showAction", "getActionRecord")
          ELSE /\ run' = [ run EXCEPT ![i] = [ finished EXCEPT !.pc = "done" ] ]
               /\ UNCHANGED interactionId
    /\ UNCHANGED <<pageModel, alerts, local, pageData, trace>>
    /\ UNCHANGED <<appRest, logVars, bootVars, mgrVars>>

\* createConfigAccountAction(accountUri), createUpdatePolicyAction(
\* accountUri): up to `await this.uc.getAccount(accountUri)`
CreateAccountAction(type) ==
    /\ local.calls < MaxCreatorCalls
    /\ local' = [ local EXCEPT !.calls = @ + 1 ]
    /\ interactionId' = attempt(interactionId, TRUE)
    /\ run' = Append(run, CreatorOp(IF type = "ConfigAccount"
                                    THEN "createConfigAccountAction"
                                    ELSE "createUpdatePolicyAction",
                                    "getAccount", interactionId', type))
    /\ UNCHANGED <<pageModel, alerts, rec, pageData, trace>>
    /\ UNCHANGED <<appRest, logVars, bootVars, mgrVars>>

\* resumes after `await this.uc.getAccount(accountUri)`: showAccounts() if
\* the accounts map has no data for the account, or else up to
\* `await this.uc.ensureUniqueAccountAction(...)`
CreatorGetAccountResumes(i) ==
    /\ run[i].pc = "getAccount"
    /\ \E outcome \in { "ok", "ServerSessionError" } :
         IF outcome # "ok"
         THEN /\ alerts' = alerts + 1
              /\ run' = [ run EXCEPT ![i].pc = "done" ]
              /\ UNCHANGED interactionId
         ELSE /\ UNCHANGED alerts
              /\ IF ~local.hasData
                 THEN Spawn(i, run[i], "showAccounts", "getAccountsDataForDisplay")
                 ELSE /\ run' = [ run EXCEPT ![i].pc = "ensureUniqueAccountAction" ]
                      /\ UNCHANGED interactionId
    /\ UNCHANGED <<pageModel, rec, local, pageData, trace>>
    /\ UNCHANGED <<appRest, logVars, bootVars, mgrVars>>

\* resumes after `await this.uc.ensureUniqueAccountAction(...)`:
\* if (this.interactionId === interactionId) this.showAction(...)
EnsureUniqueAccountActionResumes(i) ==
    /\ run[i].pc = "ensureUniqueAccountAction"
    /\ LET r == ensureUniqueAccountAction(rec, run[i].type)
           arguments == ShowActionArguments(r)
           finished == [ run[i] EXCEPT !.actionId = r.actionId,
                                       !.created = r.created,
                                       !.made = IF r.records # rec THEN 1 ELSE 0 ]
       IN
       /\ rec' = r.records
       /\ IF interactionId = run[i].id
          THEN Spawn(i, [ finished EXCEPT !.showed = arguments.actionId,
                                          !.justCreated = arguments.justCreated ],
                     "showAction", "getActionRecord")
          ELSE /\ run' = [ run EXCEPT ![i] = [ finished EXCEPT !.pc = "done" ] ]
               /\ UNCHANGED interactionId
    /\ UNCHANGED <<pageModel, alerts, local, pageData, trace>>
    /\ UNCHANGED <<appRest, logVars, bootVars, mgrVars>>

\* The operation that was called resumes and sets its page model, if it is
\* still the current interaction: showAction (the page of the action),
\* showAccount, showAccounts.
CalledOperationResumes(i) ==
    /\ run[i].pc \in { "getActionRecord", "getAccountSortPriority",
                       "getAccountsDataForDisplay" }
    /\ run' = [ run EXCEPT ![i].pc = "done" ]
    /\ IF interactionId # run[i].id
       THEN UNCHANGED <<pageModel, pageData>>
       ELSE CASE run[i].name = "showAction" ->
                   /\ pageModel' = run[i].type \o "Model"
                   /\ pageData' = [ type |-> run[i].type,
                                    actionId |-> run[i].actionId,
                                    justCreated |-> run[i].justCreated ]
              [] run[i].name = "showAccount" ->
                   /\ pageModel' = "AccountModel"
                   /\ pageData' = NoShownAction
              [] OTHER ->
                   /\ pageModel' = "AccountsModel"
                   /\ pageData' = NoShownAction
    /\ UNCHANGED <<interactionId, alerts, rec, local, trace>>
    /\ UNCHANGED <<appRest, logVars, bootVars, mgrVars>>

\* No action records yet; the account may be in the index of the accounts
\* map, have its data there, and be the account of a known debtor.
InitCreator ==
    /\ AppIdle
    /\ MgrIdle
    /\ LogIdle
    /\ BootIdle
    /\ rec = << >>
    /\ local \in { d \in [ indexed : BOOLEAN, hasData : BOOLEAN,
                           knownDebtor : BOOLEAN, calls : {0} ] :
                     /\ d.hasData => d.indexed
                     /\ d.knownDebtor => d.hasData }
    /\ run = << >>
    /\ pageData = NoShownAction
    /\ trace = "none"

NextCreator ==
    \/ CreateCreateAccountAction
    \/ \E i \in 1..Len(run) : CreateCreateAccountActionResumes(i)
    \/ \E type \in UniqueTypes : CreateAccountAction(type)
    \/ \E i \in 1..Len(run) : CreatorGetAccountResumes(i)
    \/ \E i \in 1..Len(run) : EnsureUniqueAccountActionResumes(i)
    \/ \E i \in 1..Len(run) : CalledOperationResumes(i)
    \/ StartInteraction

SpecCreator == InitCreator /\ [][NextCreator]_vars

\* The calls of the given operations that have run to their end.
Finished(names) ==
    { i \in 1..Len(run) : run[i].name \in names /\ run[i].pc = "done" }

\* C16: a call of createCreateAccountAction with a coin URI of an account
\* that is in the accounts map with display.knownDebtor = true calls
\* showAccount and adds no action record; with any other coin URI that
\* parses it adds exactly one record, of type CreateAccount.
C16_KnownDebtorShowsAccountElseOneRecord ==
    \A i \in Finished({ "createCreateAccountAction" }) :
        run[i].valid =>
            IF local.indexed /\ local.hasData /\ local.knownDebtor
            THEN run[i].spawned = "showAccount" /\ run[i].made = 0
            ELSE /\ run[i].made = 1
                 /\ run[i].spawned # "showAccount"
                 /\ rec[run[i].actionId].actionType = "CreateAccount"

C16_Witness ==
    /\ local.knownDebtor
    /\ Finished({ "createCreateAccountAction" }) # {}
    /\ \E i \in Finished({ "createCreateAccountAction" }) : run[i].valid
    /\ pageModel = "AccountModel"
    /\ rec = << >>

\* C17: however the awaits of the calls of createConfigAccountAction
\* interleave, there is at most one ConfigAccount record, and exactly one
\* once a call has got its action; every call that got its action got this
\* one, and shows it if it shows an action; at most one call gets
\* created = true, the call that added the record, and only that call
\* shows the action as just created.  The same for UpdatePolicy.
C17_OneRecordOneActionId ==
    \A type \in UniqueTypes :
        LET calls == { i \in 1..Len(run) :
                         /\ run[i].type = type
                         /\ run[i].name \in { "createConfigAccountAction",
                                              "createUpdatePolicyAction" }
                         /\ run[i].actionId # 0 }
        IN
        /\ Cardinality(OfType(rec, type)) <= 1
        /\ calls # {} => Cardinality(OfType(rec, type)) = 1
        /\ \A i \in calls :
             /\ run[i].actionId \in OfType(rec, type)
             /\ run[i].showed \in { 0, run[i].actionId }
             /\ run[i].created <=> run[i].made = 1
             /\ run[i].justCreated => run[i].created
        /\ Cardinality({ i \in calls : run[i].created }) <= 1

C17_Witness ==
    \E i, j \in 1..Len(run) :
        /\ i # j
        /\ run[i].name = "createConfigAccountAction"
        /\ run[j].name = "createConfigAccountAction"
        /\ run[i].showed # 0
        /\ run[i].showed = run[j].actionId
        /\ run[i].created /\ ~run[j].created
        /\ run[j].id < run[i].id

----------------------------------------------------------------------------
(***************************************************************************)
(* update(server, userId): sync, then executeReadyTasks.  `rec` is the set *)
(* of the due DeleteTransfer tasks, named by their place in the order of   *)
(* getTasks; `local` is what the server holds and answers: the transfers   *)
(* it has deleted, the task whose transfer is already gone, the task whose *)
(* request fails once and with what, and the configured timeout of a       *)
(* request.  `trace` is what the calls of update() have done.              *)
(***************************************************************************)
Limit == 100             \* const limit = 100

Parallelism == 6         \* const n = 6

MaxBatches == 2          \* full batches of due tasks
MaxUpdates == 2          \* calls of update() in one behaviour

QueueSizes == { 0, 1, Limit - 1, Limit, MaxBatches * Limit, MaxBatches * Limit + 1 }

UpdateErrors ==
    { "AuthenticationError", "ServerSessionError", "HttpError500",
      "PinNotRequired", "Error" }

\* the switch of update(): the window event of an error, if it has one
UpdateEventMutNetworkOnly(error) ==
    IF error = "ServerSessionError" THEN "update-network-error" ELSE "none"

UpdateEvent(error) ==
    CASE error = "AuthenticationError" -> "update-authentication-error"
      [] error = "ServerSessionError" -> "update-network-error"
      [] error \in { "HttpError404", "HttpError500" } -> "update-http-error"
      [] error = "PinNotRequired" -> "pin-not-required"
      [] OTHER -> "none"

\* if (!(e instanceof HttpError && e.status === 404)) throw e
IgnoredMutAnyHttpError(error) == error \in { "HttpError404", "HttpError500" }

Ignored(error) == error = "HttpError404"

\* } while (tasks.length >= limit)
AnotherBatchMutNever(tasks) == FALSE

AnotherBatch(tasks) == Cardinality(tasks) >= Limit

\* getTasks(userId, new Date(), limit), of the storage module: the first
\* `limit` due tasks.
getTasks(due, limit) ==
    IF Cardinality(due) <= limit THEN due
    ELSE { t \in due : Cardinality({ u \in due : u < t }) < limit }

\* appConfig.serverApiTimeout * (numberOfParallelRequests + n - 1) / n, a
\* division of numbers: the quotient is kept as a fraction.
calcParallelTimeout(serverApiTimeout, numberOfParallelRequests) ==
    [ num |-> serverApiTimeout * (numberOfParallelRequests + Parallelism - 1),
      den |-> Parallelism ]

\* What server.delete(task.transferUri) ends with.
DeleteOutcome(task, failed) ==
    IF task \in local.deleted \/ task = local.gone THEN "HttpError404"
    ELSE IF task = local.failing /\ task \notin failed THEN local.failure
    ELSE "ok"

TasksOp(pc, tasks, error) == [ pc |-> pc, tasks |-> tasks, error |-> error ]

NoUpdateTrace ==
    [ updates |-> 0, sync |-> "none", sizes |-> << >>, timeouts |-> << >>,
      executed |-> {}, succeeded |-> {}, notFound |-> {}, failed |-> {},
      again |-> {}, event |-> "none", rethrown |-> FALSE, resolved |-> FALSE ]

\* catch (error) of update(): the event is dispatched, or the error rethrown
Catch(error, tasks) ==
    /\ run' = TasksOp("done", tasks, error)
    /\ pageData' = IF UpdateEvent(error) = "none" THEN pageData
                   ELSE Append(pageData, UpdateEvent(error))

\* update() is called by the update scheduler: up to `await sync(...)`
Update ==
    /\ run.pc \in { "idle", "done" }
    /\ trace.updates < MaxUpdates
    /\ run' = TasksOp("sync", {}, "none")
    /\ trace' = [ trace EXCEPT !.updates = @ + 1, !.sync = "none",
                               !.sizes = << >>, !.timeouts = << >>,
                               !.event = "none", !.rethrown = FALSE,
                               !.resolved = FALSE ]
    /\ UNCHANGED <<rec, local, pageData>>
    /\ UNCHANGED <<appVars, logVars, bootVars, mgrVars>>

\* resumes after `await sync(server, userId)`: executeReadyTasks runs up to
\* `await getTasks(...)`, or the error is caught
SyncSettles ==
    /\ run.pc = "sync"
    /\ \E outcome \in { "ok" } \cup UpdateErrors :
         IF outcome = "ok"
         THEN /\ run' = [ run EXCEPT !.pc = "getTasks" ]
              /\ trace' = [ trace EXCEPT !.sync = "ok" ]
              /\ UNCHANGED pageData
         ELSE /\ Catch(outcome, {})
              /\ trace' = [ trace EXCEPT !.sync = outcome,
                              !.event = UpdateEvent(outcome),
                              !.rethrown = (UpdateEvent(outcome) = "none"),
                              !.resolved = (UpdateEvent(outcome) # "none") ]
    /\ UNCHANGED <<rec, local>>
    /\ UNCHANGED <<appVars, logVars, bootVars, mgrVars>>

\* resumes after `await getTasks(...)`: the timeout, and the executor of
\* every task is called, each up to `await server.delete(...)`
GetTasksResumes ==
    /\ run.pc = "getTasks"
    /\ LET tasks == getTasks(rec, Limit) IN
       /\ run' = [ run EXCEPT !.pc = "Promise.all", !.tasks = tasks ]
       /\ trace' = [ trace EXCEPT
                       !.sizes = Append(@, Cardinality(tasks)),
                       !.timeouts = Append(@,
                           calcParallelTimeout(local.serverApiTimeout,
                                               Cardinality(tasks))),
                       !.executed = @ \cup tasks ]
    /\ UNCHANGED <<rec, local, pageData>>
    /\ UNCHANGED <<appVars, logVars, bootVars, mgrVars>>

\* resumes after `await Promise.all(...)`: every request has settled and
\* every executor has removed its task or thrown; then the next batch, the
\* end of the loop, or the first error, which update() catches
TasksSettle ==
    /\ run.pc = "Promise.all"
    /\ LET tasks == run.tasks
           succeeded == { t \in tasks : DeleteOutcome(t, trace.failed) = "ok" }
           notFound == { t \in tasks : DeleteOutcome(t, trace.failed) = "HttpError404" }
           ignored == { t \in tasks : Ignored(DeleteOutcome(t, trace.failed)) }
           thrown == tasks \ (succeeded \cup ignored)
           error == IF thrown = {} THEN "none"
                    ELSE DeleteOutcome(CHOOSE t \in thrown : TRUE, trace.failed)
           met == [ trace EXCEPT !.succeeded = @ \cup succeeded,
                                 !.notFound = @ \cup notFound,
                                 !.again = @ \cup (notFound \cap trace.failed),
                                 !.failed = @ \cup (tasks \ (succeeded \cup notFound)) ]
       IN
       /\ rec' = rec \ (succeeded \cup ignored)
       /\ \E reached \in SUBSET thrown :
            \* a request that failed may have reached the server
            local' = [ local EXCEPT !.deleted = @ \cup succeeded \cup
                         { t \in reached : local.failure = "ServerSessionError" } ]
       /\ IF error # "none"
          THEN /\ Catch(error, tasks)
               /\ trace' = [ met EXCEPT !.event = UpdateEvent(error),
                               !.rethrown = (UpdateEvent(error) = "none"),
                               !.resolved = (UpdateEvent(error) # "none") ]
          ELSE IF AnotherBatch(tasks)
          THEN /\ run' = [ run EXCEPT !.pc = "getTasks" ]
               /\ trace' = met
               /\ UNCHANGED pageData
          ELSE /\ run' = [ run EXCEPT !.pc = "done" ]
               /\ trace' = [ met EXCEPT !.resolved = TRUE ]
               /\ UNCHANGED pageData
    /\ UNCHANGED <<appVars, logVars, bootVars, mgrVars>>

InitTasks ==
    /\ AppIdle
    /\ MgrIdle
    /\ LogIdle
    /\ BootIdle
    /\ \E n \in QueueSizes :
         /\ rec = 1..n
         /\ local \in [ deleted : { {} }, gone : { 0, 1, Limit },
                        failing : { 0, 1, Limit + 1 },
                        failure : { "ServerSessionError", "HttpError500", "Error" },
                        serverApiTimeout : { 6, 8000 } ]
         /\ local.gone <= n
         /\ local.failing <= n
         /\ local.gone # 0 => local.gone # local.failing
         /\ local.failing = 0 => local.failure = "ServerSessionError"
         /\ (local.gone # 0 \/ local.failing # 0) => local.serverApiTimeout = 6
    /\ run = TasksOp("idle", {}, "none")
    /\ pageData = << >>
    /\ trace = NoUpdateTrace

NextTasks ==
    \/ Update
    \/ SyncSettles
    \/ GetTasksResumes
    \/ TasksSettle

SpecTasks == InitTasks /\ [][NextTasks]_vars

\* C26: a DeleteTransfer task that was executed is out of the queue exactly
\* when its delete request succeeded or ended with HTTP 404; when a task of
\* the last batch is still in the queue, executeReadyTasks has thrown the
\* error of a request; a task executed again after its transfer was deleted
\* is removed.
C26_TaskRemovedIffDeletedOrGone ==
    /\ run.pc # "Promise.all" =>
         \A t \in trace.executed :
            t \notin rec <=> t \in trace.succeeded \cup trace.notFound
    /\ (run.pc = "done" /\ run.tasks \cap rec # {}) =>
         run.error \in UpdateErrors
    /\ run.pc # "Promise.all" => trace.again \cap rec = {}

C26_Witness ==
    /\ run.pc = "done"
    /\ trace.again # {}
    /\ local.gone # 0
    /\ local.gone \in trace.notFound
    /\ rec = {}

\* C27: no batch has more than 100 tasks; every task of a batch is
\* executed; another batch is fetched exactly when the batch before held 100
\* tasks, so every batch but the last held 100 and a run that ended without
\* an error ended on a batch of fewer than 100, with no due task left.
C27_BatchesUntilPartialBatch ==
    /\ \A i \in 1..Len(trace.sizes) : trace.sizes[i] <= Limit
    /\ \A i \in 1..(Len(trace.sizes) - 1) : trace.sizes[i] = Limit
    /\ run.tasks \subseteq trace.executed
    /\ (run.pc = "getTasks" /\ trace.sizes # << >>) =>
         trace.sizes[Len(trace.sizes)] = Limit
    /\ (run.pc = "done" /\ run.error = "none") =>
         /\ trace.sizes # << >>
         /\ trace.sizes[Len(trace.sizes)] < Limit
         /\ rec = {}

C27_Witness ==
    /\ run.pc = "done"
    /\ run.error = "none"
    /\ Len(trace.sizes) >= 3
    /\ trace.sizes[Len(trace.sizes)] = 1
    /\ rec = {}

\* C28: executeReadyTasks runs only after sync has ended without an error;
\* an AuthenticationError, ServerSessionError, HttpError or PinNotRequired of
\* either step becomes its window event and update() resolves; any other
\* error is rethrown and no event is dispatched.
C28_UpdateTurnsErrorsIntoEvents ==
    /\ (run.pc \in { "getTasks", "Promise.all" } \/ trace.sizes # << >>) =>
         trace.sync = "ok"
    /\ run.pc = "done" =>
         LET expected ==
               CASE run.error = "AuthenticationError" -> "update-authentication-error"
                 [] run.error = "ServerSessionError" -> "update-network-error"
                 [] run.error = "HttpError500" -> "update-http-error"
                 [] run.error = "PinNotRequired" -> "pin-not-required"
                 [] OTHER -> "none"
         IN
         /\ trace.event = expected
         /\ run.error # "none" /\ expected # "none" =>
              /\ trace.resolved /\ ~trace.rethrown
              /\ pageData # << >>
              /\ pageData[Len(pageData)] = expected
         /\ run.error # "none" /\ expected = "none" =>
              ~trace.resolved /\ trace.rethrown
         /\ run.error = "none" => trace.resolved /\ ~trace.rethrown

C28_Witness ==
    /\ run.pc = "done"
    /\ trace.sync = "ok"
    /\ run.error = "HttpError500"
    /\ trace.resolved
    /\ pageData = << "update-http-error" >>

\* C29: the timeout of n parallel requests is base * ceil(n / 6).
C29_TimeoutIsBaseTimesCeiling ==
    \A i \in 1..Len(trace.timeouts) :
        trace.timeouts[i].num =
            local.serverApiTimeout
              * ((trace.sizes[i] + Parallelism - 1) \div Parallelism)
              * trace.timeouts[i].den

----------------------------------------------------------------------------
(***************************************************************************)
(* UserContext.resetPin(newPin).  `local` is the PinInfo of the server,    *)
(* `rec` the PinInfo object of the local storage, `run` the call: its      *)
(* place, attemptsLeft, the PinInfo it has read, the requests it has made  *)
(* and the answer to its last request.                                     *)
(***************************************************************************)
AttemptsLeft == 10       \* let attemptsLeft = 10

PatchAnswers ==
    { "ok", "HttpError409", "HttpError403", "HttpError422", "ServerSessionError" }

\* if (e instanceof HttpError && e.status === 409 && attemptsLeft--) continue
\* else throw e
RetryMutAnyHttpError(error, attemptsLeft) ==
    IF error \in { "HttpError409", "HttpError403", "HttpError422" }
    THEN [ again |-> attemptsLeft # 0, attemptsLeft |-> attemptsLeft - 1 ]
    ELSE [ again |-> FALSE, attemptsLeft |-> attemptsLeft ]

Retry(error, attemptsLeft) ==
    IF error = "HttpError409"
    THEN [ again |-> attemptsLeft # 0, attemptsLeft |-> attemptsLeft - 1 ]
    ELSE [ again |-> FALSE, attemptsLeft |-> attemptsLeft ]

\* catch (e) { if (e instanceof HttpError) throw new ServerSessionError(...)
\*             else throw e }
ResetPinThrows(error) ==
    IF error \in { "HttpError409", "HttpError403", "HttpError422", "HttpError500" }
    THEN "ServerSessionError" ELSE error

PinOp(pc, attemptsLeft) ==
    [ pc |-> pc, attemptsLeft |-> attemptsLeft, pinInfo |-> 0, sent |-> 0,
      gets |-> 0, patches |-> 0, answer |-> "none", thrown |-> "none" ]

\* resetPin(newPin) is called: up to `await this.fetchPinInfo(pinInfoUri)`
ResetPin ==
    /\ run.pc = "idle"
    /\ run' = [ PinOp("fetchPinInfo", AttemptsLeft) EXCEPT !.gets = 1 ]
    /\ UNCHANGED <<rec, local, pageData, trace>>
    /\ UNCHANGED <<appVars, logVars, bootVars, mgrVars>>

\* resumes after `await this.fetchPinInfo(pinInfoUri)`: the PATCH with
\* latestUpdateId: pinInfo.latestUpdateId + 1n is sent
FetchPinInfoResumes ==
    /\ run.pc = "fetchPinInfo"
    /\ \E answer \in { "ok", "HttpError500", "ServerSessionError" } :
         IF answer # "ok"
         THEN run' = [ run EXCEPT !.pc = "done", !.answer = answer,
                                  !.thrown = ResetPinThrows(answer) ]
         ELSE run' = [ run EXCEPT !.pc = "patch",
                                  !.pinInfo = local.latestUpdateId,
                                  !.sent = local.latestUpdateId + 1,
                                  !.patches = @ + 1 ]
    /\ UNCHANGED <<rec, local, pageData, trace>>
    /\ UNCHANGED <<appVars, logVars, bootVars, mgrVars>>

\* resumes after `await this.server.patch(pinInfoUri, requestBody)`: the
\* server has taken the update, or has answered 409 because its PinInfo was
\* updated in the meantime, or the request has failed otherwise
PatchResumes ==
    /\ run.pc = "patch"
    /\ \E answer \in PatchAnswers :
         LET retry == Retry(answer, run.attemptsLeft)
             met == [ run EXCEPT !.answer = answer,
                                 !.attemptsLeft = retry.attemptsLeft ]
         IN
         CASE answer = "ok" ->
                /\ run.sent = local.latestUpdateId + 1
                /\ local' = [ local EXCEPT !.latestUpdateId = run.sent ]
                /\ run' = [ met EXCEPT !.pc = "storeObject" ]
           [] answer = "HttpError409" ->
                /\ local' = [ local EXCEPT !.latestUpdateId = @ + 1 ]
                /\ run' = IF retry.again
                          THEN [ met EXCEPT !.pc = "fetchPinInfo", !.gets = @ + 1 ]
                          ELSE [ met EXCEPT !.pc = "done",
                                            !.thrown = ResetPinThrows(answer) ]
           [] OTHER ->
                /\ UNCHANGED local
                /\ run' = IF retry.again
                          THEN [ met EXCEPT !.pc = "fetchPinInfo", !.gets = @ + 1 ]
                          ELSE [ met EXCEPT !.pc = "done",
                                            !.thrown = ResetPinThrows(answer) ]
    /\ UNCHANGED <<rec, pageData, trace>>
    /\ UNCHANGED <<appVars, logVars, bootVars, mgrVars>>

\* resumes after `await storeObject(this.userId, makePinInfo(response))`
StorePinInfoResumes ==
    /\ run.pc = "storeObject"
    /\ rec' = [ stored |-> TRUE, latestUpdateId |-> run.sent ]
    /\ run' = [ run EXCEPT !.pc = "done" ]
    /\ UNCHANGED <<local, pageData, trace>>
    /\ UNCHANGED <<appVars, logVars, bootVars, mgrVars>>

InitPin ==
    /\ AppIdle
    /\ MgrIdle
    /\ LogIdle
    /\ BootIdle
    /\ rec = [ stored |-> FALSE, latestUpdateId |-> 0 ]
    /\ local \in [ latestUpdateId : { 1, 2 } ]
    /\ run = PinOp("idle", 0)
    /\ pageData = "none"
    /\ trace = "none"

NextPin ==
    \/ ResetPin
    \/ FetchPinInfoResumes
    \/ PatchResumes
    \/ StorePinInfoResumes

\* Every awaited request settles.
SpecPin == InitPin /\ [][NextPin]_vars /\ WF_vars(NextPin)

\* C22: resetPin sends at most 11 PATCH requests, each after reading the
\* PinInfo anew and with its latestUpdateId + 1; it tries again only after
\* an answer of HTTP 409; when it ends on an HttpError, the exhausted budget
\* included, it has thrown ServerSessionError and stored no PinInfo; and it
\* always comes to its end.
C22_PinResetRetriesAreBounded ==
    /\ [](/\ run.patches <= 11
          /\ run.gets <= 11
          /\ run.pc = "patch" =>
               /\ run.gets = run.patches
               /\ run.pinInfo = local.latestUpdateId
               /\ run.sent = run.pinInfo + 1
          /\ (run.pc = "fetchPinInfo" /\ run.patches > 0) =>
               run.answer = "HttpError409"
          /\ (run.pc = "done" /\ run.answer \in { "HttpError409", "HttpError403",
                                                   "HttpError422", "HttpError500" }) =>
               /\ run.thrown = "ServerSessionError"
               /\ ~rec.stored
          /\ (run.pc = "done" /\ run.thrown # "none") => ~rec.stored
          /\ (run.pc = "done" /\ run.answer = "HttpError409") => run.patches = 11)
    /\ <>(run.pc = "done")

C22_Witness ==
    /\ run.pc = "done"
    /\ run.patches = 11
    /\ run.answer = "HttpError409"
    /\ run.thrown = "ServerSessionError"
    /\ ~rec.stored

----------------------------------------------------------------------------
(***************************************************************************)
(* attempt(func, options): the alert of an error and the waiting           *)
(* interactions.  `run` holds the calls made: those of attempt(), each     *)
(* with its options, its timer and its addedWaitingInteraction flag, and   *)
(* those of the two operations of AppState that await a request outside    *)
(* attempt(); `local` is the waitingInteractions store.                     *)
(***************************************************************************)
MaxAttempts == 2         \* calls in one behaviour

ThrownErrors == { "ServerSessionError", "RecordDoesNotExist" }

\* error instanceof errorConstructor
InstanceOf(error, errorConstructor) ==
    errorConstructor = error \/ errorConstructor = "Error"

AlertEntry(errorConstructor, kind, tag) ==
    [ errorConstructor |-> errorConstructor, kind |-> kind, tag |-> tag ]

NoAlertEntry == AlertEntry("none", "undefined", "none")

\* The values of options.alerts: none, one entry, two entries for one
\* error, and an entry for every error before an entry for one error.
AlertLists ==
    { << >>,
      << AlertEntry("ServerSessionError", "Alert", "first") >>,
      << AlertEntry("ServerSessionError", "function", "first"),
         AlertEntry("ServerSessionError", "Alert", "second") >>,
      << AlertEntry("RecordDoesNotExist", "Alert", "first"),
         AlertEntry("Error", "function", "second") >> }

\* alertFromError(error): for (const [errorConstructor, alert] of alerts)
\*   if (error instanceof errorConstructor) return alert
alertFromErrorMutLastMatch(alertList, error) ==
    LET matching == { k \in 1..Len(alertList) :
                        InstanceOf(error, alertList[k].errorConstructor) }
    IN IF matching = {} THEN NoAlertEntry
       ELSE alertList[CHOOSE k \in matching : \A j \in matching : j <= k]

alertFromError(alertList, error) ==
    LET matching == { k \in 1..Len(alertList) :
                        InstanceOf(error, alertList[k].errorConstructor) }
    IN IF matching = {} THEN NoAlertEntry
       ELSE alertList[CHOOSE k \in matching : \A j \in matching : k <= j]

\* clearWaitingInteraction(): clearTimeout(timeoutId) if there is a timer;
\* the id is deleted from the store if this call has added it
clearWaitingInteractionMutKeepsTimer(call, waiting) ==
    [ timer |-> call.timer,
      waiting |-> IF call.added THEN waiting \ { call.id } ELSE waiting ]

clearWaitingInteraction(call, waiting) ==
    [ timer |-> IF call.timer = "set" THEN "cleared" ELSE call.timer,
      waiting |-> IF call.added THEN waiting \ { call.id } ELSE waiting ]

AttemptCall(name, id, alertList, startInteraction, waitingDelay) ==
    [ name |-> name, id |-> id, alerts |-> alertList,
      startInteraction |-> startInteraction, waitingDelay |-> waitingDelay,
      timer |-> "none", added |-> FALSE, pc |-> "pending", error |-> "none",
      alert |-> "none", called |-> "none" ]

HasSettled(call) == call.pc \in { "resolved", "rejected" }

\* attempt(func, options) is called: the interaction id, the timer or the
\* waiting interaction, then func() up to its first await
Attempt ==
    /\ Len(run) < MaxAttempts
    /\ \E alertList \in AlertLists, startInteraction \in BOOLEAN,
          waitingDelay \in { 0, 250 } :
         LET id == attempt(interactionId, startInteraction)
             call == AttemptCall("attempt", id, alertList, startInteraction,
                                 waitingDelay)
         IN
         /\ ~startInteraction => waitingDelay = 250
         /\ interactionId' = id
         /\ IF ~startInteraction
            THEN /\ run' = Append(run, call)
                 /\ UNCHANGED local
            ELSE IF waitingDelay > 0
            THEN /\ run' = Append(run, [ call EXCEPT !.timer = "set" ])
                 /\ UNCHANGED local
            ELSE /\ run' = Append(run, [ call EXCEPT !.added = TRUE ])
                 /\ local' = local \cup { id }
    /\ UNCHANGED <<pageModel, alerts, rec, pageData, trace>>
    /\ UNCHANGED <<appRest, logVars, bootVars, mgrVars>>

\* the timer of waitingDelay fires: addWaitingInteraction()
WaitingDelayElapses(i) ==
    /\ run[i].timer = "set"
    /\ run' = [ run EXCEPT ![i].timer = "fired", ![i].added = TRUE ]
    /\ local' = local \cup { run[i].id }
    /\ UNCHANGED <<interactionId, pageModel, alerts, rec, pageData, trace>>
    /\ UNCHANGED <<appRest, logVars, bootVars, mgrVars>>

\* `await func()` ends: the catch block if func has thrown, then
\* clearWaitingInteraction()
FuncSettles(i) ==
    /\ run[i].name = "attempt"
    /\ run[i].pc = "pending"
    /\ \E error \in { "none" } \cup ThrownErrors :
         LET entry == alertFromError(run[i].alerts, error)
             cleared == clearWaitingInteraction(run[i], local)
             call == [ run[i] EXCEPT !.error = error, !.timer = cleared.timer ]
         IN
         /\ local' = cleared.waiting
         /\ CASE error = "none" ->
                   /\ run' = [ run EXCEPT ![i] = [ call EXCEPT !.pc = "resolved" ] ]
                   /\ UNCHANGED alerts
              [] error # "none" /\ entry = NoAlertEntry ->
                   \* this.addAlert(new Alert(UNEXPECTED_ERROR_MESSAGE)); throw e
                   /\ run' = [ run EXCEPT ![i] =
                                 [ call EXCEPT !.pc = "rejected",
                                               !.alert = "UNEXPECTED_ERROR" ] ]
                   /\ alerts' = alerts + 1
              [] error # "none" /\ entry.kind = "function" ->
                   /\ run' = [ run EXCEPT ![i] =
                                 [ call EXCEPT !.pc = "resolved",
                                               !.called = entry.tag ] ]
                   /\ UNCHANGED alerts
              [] OTHER ->
                   /\ run' = [ run EXCEPT ![i] =
                                 [ call EXCEPT !.pc = "resolved",
                                               !.alert = entry.tag ] ]
                   /\ alerts' = alerts + 1
    /\ UNCHANGED <<interactionId, pageModel, rec, pageData, trace>>
    /\ UNCHANGED <<appRest, logVars, bootVars, mgrVars>>

\* setAccountSortPriority(uri, priority), or the deleteAction() of the page
\* of a just created action, is called: up to the await of its request
CallOutsideAttempt ==
    /\ Len(run) < MaxAttempts
    /\ \E name \in { "setAccountSortPriority", "deleteAction" } :
         run' = Append(run, AttemptCall(name, interactionId, << >>, FALSE, 0))
    /\ UNCHANGED <<interactionId, pageModel, alerts, rec, local, pageData, trace>>
    /\ UNCHANGED <<appRest, logVars, bootVars, mgrVars>>

\* the request of setAccountSortPriority ends: the promise of the operation
\* is the promise of the request.  The request of deleteAction ends:
\* .then(backToAccount, showActions)
RequestOutsideAttemptSettles(i) ==
    /\ run[i].name # "attempt"
    /\ run[i].pc = "pending"
    /\ \E error \in { "none" } \cup ThrownErrors :
         run' = [ run EXCEPT ![i] =
                    CASE run[i].name = "setAccountSortPriority" ->
                           [ run[i] EXCEPT !.error = error,
                               !.pc = IF error = "none" THEN "resolved"
                                      ELSE "rejected" ]
                      [] OTHER ->
                           [ run[i] EXCEPT !.error = error, !.pc = "resolved",
                               !.called = IF error = "none" THEN "backToAccount"
                                          ELSE "showActions" ] ]
    /\ UNCHANGED <<interactionId, pageModel, alerts, rec, local, pageData, trace>>
    /\ UNCHANGED <<appRest, logVars, bootVars, mgrVars>>

InitAttempt ==
    /\ AppIdle
    /\ MgrIdle
    /\ LogIdle
    /\ BootIdle
    /\ rec = "none"
    /\ local = {}
    /\ run = << >>
    /\ pageData = "none"
    /\ trace = "none"

NextAttempt ==
    \/ Attempt
    \/ \E i \in 1..Len(run) : WaitingDelayElapses(i)
    \/ \E i \in 1..Len(run) : FuncSettles(i)
    \/ CallOutsideAttempt
    \/ \E i \in 1..Len(run) : RequestOutsideAttemptSettles(i)

SpecAttempt == InitAttempt /\ [][NextAttempt]_vars

\* C23: when the function of attempt() has thrown an error that is an
\* instance of no constructor of options.alerts, the alert of an unexpected
\* error is added and attempt() rejects; when it is an instance of some, the
\* first such entry of the list is used: its alert is added, or its function
\* called, and attempt() resolves.
C23_FirstMatchingAlertElseUnexpected ==
    /\ \A i \in 1..Len(run) :
         (run[i].name = "attempt" /\ HasSettled(run[i]) /\ run[i].error # "none") =>
            LET list == run[i].alerts
                matching == { k \in 1..Len(list) :
                                \/ list[k].errorConstructor = run[i].error
                                \/ list[k].errorConstructor = "Error" }
                first == CHOOSE k \in matching : \A j \in matching : k <= j
            IN
            IF matching = {}
            THEN /\ run[i].pc = "rejected"
                 /\ run[i].alert = "UNEXPECTED_ERROR"
                 /\ run[i].called = "none"
            ELSE /\ run[i].pc = "resolved"
                 /\ list[first].kind = "Alert" =>
                      run[i].alert = list[first].tag /\ run[i].called = "none"
                 /\ list[first].kind = "function" =>
                      run[i].called = list[first].tag /\ run[i].alert = "none"
    /\ alerts = Cardinality({ i \in 1..Len(run) : run[i].alert # "none" })

C23_Witness ==
    \E i, j \in 1..Len(run) :
        /\ Len(run[i].alerts) = 2
        /\ run[i].error = "ServerSessionError"
        /\ run[i].called = "first"
        /\ run[i].pc = "resolved"
        /\ run[j].alert = "UNEXPECTED_ERROR"
        /\ run[j].pc = "rejected"
        /\ alerts = 1

\* C24: no operation of AppState ends with an error without an alert
\* having been added for it, or a handler having been called.
C24_NoErrorWithoutAlert ==
    \A i \in 1..Len(run) :
        (HasSettled(run[i]) /\ run[i].error # "none") =>
            run[i].alert # "none" \/ run[i].called # "none"

\* The operations that do run inside attempt() end with an alert, or with
\* the function of their entry called.
AttemptedErrorsAreAlerted ==
    \A i \in 1..Len(run) :
        (run[i].name \in { "attempt", "deleteAction" } /\ HasSettled(run[i])
            /\ run[i].error # "none") =>
            run[i].alert # "none" \/ run[i].called # "none"

\* C25: the id of an interaction is in waitingInteractions only while its
\* attempt() is pending, and was added when the timer of its waitingDelay
\* fired, or at the call when waitingDelay is 0; an attempt() that has
\* settled has no timer left to fire, has added nothing if it settled before
\* the delay elapsed, and its id is not in waitingInteractions.
C25_WaitingOnlyWhilePendingAfterDelay ==
    /\ \A i \in 1..Len(run) :
         /\ run[i].added =>
              /\ run[i].startInteraction
              /\ run[i].waitingDelay = 0 \/ run[i].timer = "fired"
         /\ HasSettled(run[i]) =>
              /\ run[i].timer # "set"
              /\ run[i].timer = "cleared" => ~run[i].added
              /\ run[i].startInteraction => run[i].id \notin local
    /\ \A id \in local :
         \E i \in 1..Len(run) :
            /\ run[i].id = id
            /\ run[i].startInteraction
            /\ run[i].added
            /\ run[i].pc = "pending"

C25_Witness ==
    \E i, j \in 1..Len(run) :
        /\ run[i].timer = "cleared"
        /\ run[i].error # "none"
        /\ run[j].timer = "fired"
        /\ run[j].pc = "pending"
        /\ local = { run[j].id }

----------------------------------------------------------------------------
(***************************************************************************)
(* Payments: initiatePayment() and processPaymentRequest() create the      *)
(* CreateTransfer action record, executeCreateTransferAction() saves the   *)
(* action of the page and submits it.  `rec` is the table of action        *)
(* records, indexed by actionId; `local` counts the calls of uuidv4() and  *)
(* remembers the transferUuid each record was created with; `pageData` is  *)
(* the action of the page shown; `trace` lists the submitted requests.     *)
(***************************************************************************)
MaxPayments == 2         \* calls of initiatePayment in one behaviour
MaxExecutions == 3       \* calls of executeCreateTransferAction

Blobs == { "IvalidPaymentRequest", "PaymentRequest" }

ExecuteAnswers ==
    { "TransferRecord", "ServerSessionError", "ForbiddenOperation",
      "TransferCreationTimeout" }

\* uuidv4(): a value that no call has returned before; `generated` is the
\* number of the calls made so far
uuidv4MutRepeats(generated) == 1

uuidv4(generated) == generated + 1

\* the actionRecord of processPaymentRequest, as it is kept in the table
CreateTransferAction(actionId, transferUuid) ==
    [ actionId |-> actionId, transferUuid |-> transferUuid, edited |-> FALSE,
      executed |-> FALSE ]

NoTransferAction == CreateTransferAction(0, 0)

\* the request that uc.executeCreateTransferAction(action, pin) posts
TransferCreationRequest(action) ==
    [ actionId |-> action.actionId, transferUuid |-> action.transferUuid ]

PayOp(pc, id, action) == [ pc |-> pc, id |-> id, action |-> action ]

PayOpEnded == run.pc \in { "idle", "done", "alerted", "rejected" }

\* initiatePayment(paymentRequestFile): attempt() starts the interaction and
\* the function awaits the blob
InitiatePayment ==
    /\ PayOpEnded
    /\ local.payments < MaxPayments
    /\ interactionId' = attempt(interactionId, TRUE)
    /\ run' = PayOp("blob", interactionId', NoTransferAction)
    /\ local' = [ local EXCEPT !.payments = @ + 1 ]
    /\ UNCHANGED <<pageModel, alerts, rec, pageData, trace>>
    /\ UNCHANGED <<appRest, logVars, bootVars, mgrVars>>

\* processPaymentRequest(blob): parsePaymentRequest throws, or the
\* actionRecord is made, with transferUuid: uuidv4(), and createActionRecord
\* is awaited
ProcessPaymentRequest ==
    /\ run.pc = "blob"
    /\ \E blob \in Blobs :
         IF blob = "IvalidPaymentRequest"
         THEN /\ run' = [ run EXCEPT !.pc = "alerted" ]
              /\ alerts' = alerts + 1
              /\ UNCHANGED local
         ELSE /\ run' = [ run EXCEPT !.pc = "create",
                            !.action = CreateTransferAction(
                                           0, uuidv4(local.generated)) ]
              /\ local' = [ local EXCEPT !.generated = @ + 1 ]
              /\ UNCHANGED alerts
    /\ UNCHANGED <<interactionId, pageModel, rec, pageData, trace>>
    /\ UNCHANGED <<appRest, logVars, bootVars, mgrVars>>

\* createActionRecord(actionRecord) ends: it has added the record and its
\* actionId, and the action is shown; or it has thrown, which no entry of
\* the alerts of initiatePayment matches
CreateActionRecordResumes ==
    /\ run.pc = "create"
    /\ \E added \in BOOLEAN :
         IF added
         THEN LET action == [ run.action EXCEPT !.actionId = Len(rec) + 1 ]
              IN /\ rec' = Append(rec, action)
                 /\ local' = [ local EXCEPT
                                 !.issued = Append(@, action.transferUuid) ]
                 /\ run' = [ run EXCEPT !.pc = "done", !.action = action ]
                 /\ pageData' = IF IsCurrent(run) THEN action ELSE pageData
                 /\ UNCHANGED alerts
         ELSE /\ run' = [ run EXCEPT !.pc = "rejected" ]
              /\ alerts' = alerts + 1
              /\ UNCHANGED <<rec, local, pageData>>
    /\ UNCHANGED <<interactionId, pageModel, trace>>
    /\ UNCHANGED <<appRest, logVars, bootVars, mgrVars>>

\* showAction(actionId), from the list of the actions or as reloadAction
\* after an alert: the record is read again from the table
ShowCreateTransferAction ==
    /\ PayOpEnded
    /\ \E actionId \in 1..Len(rec) :
         /\ ~rec[actionId].executed
         /\ pageData # rec[actionId]
         /\ pageData' = rec[actionId]
    /\ UNCHANGED <<interactionId, pageModel, alerts, rec, local, run, trace>>
    /\ UNCHANGED <<appRest, logVars, bootVars, mgrVars>>

\* executeCreateTransferAction(actionManager, pin): save() is called, the
\* current value of the manager is taken, with the changes of the page or
\* without, and attempt() awaits the save
ExecuteCreateTransferAction ==
    /\ PayOpEnded
    /\ pageData # NoTransferAction
    /\ Len(trace) < MaxExecutions
    /\ \E edited \in BOOLEAN :
         /\ interactionId' = attempt(interactionId, TRUE)
         /\ run' = PayOp("save", interactionId',
                         [ pageData EXCEPT !.edited = @ \/ edited ])
    /\ UNCHANGED <<pageModel, alerts, rec, local, pageData, trace>>
    /\ UNCHANGED <<appRest, logVars, bootVars, mgrVars>>

\* `await saveActionPromise` ends: the current value is in the table
SaveActionResumes ==
    /\ run.pc = "save"
    /\ rec' = [ rec EXCEPT ![run.action.actionId] = run.action ]
    /\ pageData' = run.action
    /\ run' = [ run EXCEPT !.pc = "execute" ]
    /\ UNCHANGED <<interactionId, pageModel, alerts, local, trace>>
    /\ UNCHANGED <<appRest, logVars, bootVars, mgrVars>>

\* `await this.uc.executeCreateTransferAction(action, pin)` ends: the
\* transfer is shown, or the alert of the error is added
ExecuteResumes ==
    /\ run.pc = "execute"
    /\ trace' = Append(trace, TransferCreationRequest(run.action))
    /\ \E answer \in ExecuteAnswers :
         IF answer = "TransferRecord"
         THEN /\ rec' = [ rec EXCEPT ![run.action.actionId].executed = TRUE ]
              /\ run' = [ run EXCEPT !.pc = "done" ]
              /\ pageData' = IF IsCurrent(run) THEN NoTransferAction ELSE pageData
              /\ UNCHANGED alerts
         ELSE /\ run' = [ run EXCEPT !.pc = "alerted" ]
              /\ alerts' = alerts + 1
              /\ UNCHANGED <<rec, pageData>>
    /\ UNCHANGED <<interactionId, pageModel, local>>
    /\ UNCHANGED <<appRest, logVars, bootVars, mgrVars>>

InitPay ==
    /\ AppIdle
    /\ MgrIdle
    /\ LogIdle
    /\ BootIdle
    /\ rec = << >>
    /\ local = [ payments |-> 0, generated |-> 0, issued |-> << >> ]
    /\ run = PayOp("idle", 0, NoTransferAction)
    /\ pageData = NoTransferAction
    /\ trace = << >>

NextPay ==
    \/ InitiatePayment
    \/ ProcessPaymentRequest
    \/ CreateActionRecordResumes
    \/ ShowCreateTransferAction
    \/ ExecuteCreateTransferAction
    \/ SaveActionResumes
    \/ ExecuteResumes

SpecPay == InitPay /\ [][NextPay]_vars

\* C21: the transferUuid of a CreateTransfer action is generated once, when
\* processPaymentRequest makes the record, and the record keeps it; every
\* submission of the action, a retry after an error and one after a reload
\* of the action included, carries that transferUuid, and no two action
\* records have the same.
C21_TransferUuidIsStable ==
    /\ Len(local.issued) = Len(rec)
    /\ Len(rec) <= local.generated
    /\ \A a \in 1..Len(rec) :
         /\ rec[a].actionId = a
         /\ rec[a].transferUuid = local.issued[a]
    /\ \A a, b \in 1..Len(rec) :
         a # b => rec[a].transferUuid # rec[b].transferUuid
    /\ \A n \in 1..Len(trace) :
         /\ trace[n].actionId \in 1..Len(rec)
         /\ trace[n].transferUuid = local.issued[trace[n].actionId]
    /\ (pageData # NoTransferAction) =>
         /\ pageData.actionId \in 1..Len(rec)
         /\ pageData.transferUuid = local.issued[pageData.actionId]

C21_Witness ==
    /\ Len(rec) = 2
    /\ Len(trace) = 3
    /\ trace[1].actionId = trace[2].actionId
    /\ trace[3].actionId # trace[1].actionId
    /\ rec[trace[1].actionId].edited
    /\ rec[trace[1].actionId].executed

----------------------------------------------------------------------------
(***************************************************************************)
(* Canonical objects: makeLogObject() and updateAccountObject().  A        *)
(* response is the declared type of its object and the declared types of   *)
(* the objects embedded in it, of which at most one is left out or is of   *)
(* another type.  `rec` is the set of the objects in the local storage,    *)
(* `run` the call of updateAccountObject, `trace` what the last call has    *)
(* been given and what it has returned or thrown.                           *)
(***************************************************************************)
MaxObjectCalls == 2      \* calls of updateAccountObject in one behaviour

LogObjectTypes ==
    { "Account", "AccountDisplay", "AccountConfig", "AccountKnowledge",
      "AccountExchange", "AccountLedger", "AccountInfo", "Creditor", "PinInfo",
      "Transfer", "CommittedTransfer" }

\* String(data.type) of a response: the types above, the types of the
\* lists, that of the wallet, a type of no pattern and a missing type
TypeStrings ==
    LogObjectTypes \cup { "AccountsList", "TransfersList", "Wallet",
                          "AccountV2", "undefined" }

\* a regular expression /^Name$/ is the string it matches
Test(matcher, objType) == objType = matcher

\* the switch of getCanonicalType: the first pattern that matches
getCanonicalType(objectType) ==
    LET patterns == << "Account", "AccountDisplay", "AccountKnowledge",
                       "AccountExchange", "AccountLedger", "AccountConfig",
                       "AccountInfo", "Creditor", "PinInfo",
                       "CommittedTransfer", "Transfer", "AccountsList",
                       "TransfersList" >>
        matching == { k \in 1..Len(patterns) : Test(patterns[k], objectType) }
    IN IF matching = {} THEN "undefined"
       ELSE patterns[CHOOSE k \in matching : \A j \in matching : k <= j]

\* matchType(matcher, data.type) or matchType(matcher, data.type ?? 'Name')
\* of an embedded object
Slot(matcher, hasDefault) == [ matcher |-> matcher, hasDefault |-> hasDefault ]

\* the calls of matchType that the maker of a type makes after that for the
\* type itself, in their order
EmbeddedIn(type) ==
    LET exchange == << Slot("CurrencyPeg", TRUE) >>
        info == << Slot("DebtorInfo", TRUE) >>
        ledger == << Slot("PaginatedList", FALSE), Slot("LedgerEntry", FALSE) >>
    IN CASE type = "AccountExchange" -> exchange
         [] type = "AccountInfo" -> info
         [] type = "AccountLedger" -> ledger
         [] type = "Transfer" ->
              << Slot("TransferOptions", TRUE), Slot("TransferResult", TRUE),
                 Slot("TransferError", TRUE) >>
         [] type = "Account" ->
              << Slot("AccountConfig", TRUE), Slot("AccountExchange", TRUE) >>
              \o exchange
              \o << Slot("AccountKnowledge", TRUE),
                    Slot("AccountDisplay", TRUE), Slot("AccountInfo", FALSE) >>
              \o info \o << Slot("AccountLedger", FALSE) >> \o ledger
         [] OTHER -> << >>

HttpResponse(type, slot, declared) ==
    [ type |-> type, slot |-> slot, declared |-> declared ]

Responses ==
    { HttpResponse(type, 0, "undefined") : type \in TypeStrings }
    \cup UNION { { HttpResponse(type, slot, declared) :
                     slot \in 1..Len(EmbeddedIn(type)),
                     declared \in { "undefined", "Wallet" } } :
                 type \in LogObjectTypes }

\* the answers to the PATCH of a config, knowledge, display or exchange
PatchResponses ==
    { response \in Responses :
        response.type \in { "AccountConfig", "AccountKnowledge",
                            "AccountDisplay", "AccountExchange",
                            "AccountsList", "undefined" } }

\* the argument of the k-th matchType of the maker
DeclaredType(response, k) ==
    LET slot == EmbeddedIn(response.type)[k]
    IN IF k # response.slot THEN slot.matcher
       ELSE IF response.declared = "undefined" /\ slot.hasDefault
            THEN slot.matcher
            ELSE response.declared

\* matchType: if (!matcher.test(objType)) throw new WrongObjectType(objType)
matchType(matcher, objType) ==
    IF Test(matcher, objType) THEN "none" ELSE "WrongObjectType"

CanonicalObject(thrown, type, response) ==
    [ thrown |-> thrown, type |-> type, response |-> response ]

makeLogObjectMutListsToo(response) ==
    CanonicalObject("none", response.type, response)

\* makeLogObject(response): the maker of the canonical type, or
\* WrongObjectType for the default of the switch
makeLogObject(response) ==
    LET type == getCanonicalType(response.type)
        slots == EmbeddedIn(type)
    IN IF type \notin LogObjectTypes
       THEN CanonicalObject("WrongObjectType", "none", response)
       ELSE IF \E k \in 1..Len(slots) :
                  matchType(slots[k].matcher, DeclaredType(response, k)) # "none"
       THEN CanonicalObject("WrongObjectType", "none", response)
       ELSE CanonicalObject("none", type, response)

HttpError(status) == [ class |-> "HttpError", status |-> status ]

PatchErrors ==
    { HttpError(409), HttpError(403), HttpError(422), HttpError(404),
      HttpError(500), [ class |-> "ServerSessionError", status |-> 0 ] }

\* the catch block of updateAccountObject
PatchThrowsMut422Unchanged(e) ==
    IF e.class = "HttpError" /\ e.status = 409
    THEN [ class |-> "ConflictingUpdate", status |-> 0 ]
    ELSE IF e.class = "HttpError" /\ e.status = 403
    THEN [ class |-> "WrongPin", status |-> 0 ]
    ELSE e

PatchThrows(e) ==
    IF e.class = "HttpError" /\ e.status = 409
    THEN [ class |-> "ConflictingUpdate", status |-> 0 ]
    ELSE IF e.class = "HttpError" /\ e.status = 403
    THEN [ class |-> "WrongPin", status |-> 0 ]
    ELSE IF e.class = "HttpError" /\ e.status = 422
    THEN [ class |-> "UnprocessableEntity", status |-> 0 ]
    ELSE e

NoError == [ class |-> "none", status |-> 0 ]

NoResponse == HttpResponse("none", 0, "undefined")

NoCanonicalObject == CanonicalObject("none", "none", NoResponse)

\* what a call has been answered, what it has thrown or returned, and the
\* storage at the call
ObjectTrace(by, storage) ==
    [ by |-> by, answer |-> NoError, response |-> NoResponse,
      thrown |-> NoError, returned |-> NoCanonicalObject, stored |-> storage ]

\* updateAccountObject(obj): up to the await of server.patch
UpdateAccountObject ==
    /\ run.pc \in { "idle", "done" }
    /\ run.calls < MaxObjectCalls
    /\ run' = [ run EXCEPT !.pc = "patch", !.calls = @ + 1 ]
    /\ trace' = ObjectTrace("updateAccountObject", rec)
    /\ UNCHANGED <<interactionId, pageModel, alerts, rec, local, pageData>>
    /\ UNCHANGED <<appRest, logVars, bootVars, mgrVars>>

\* server.patch ends: it has thrown, or makeLogObject(response) is called
\* and storeObject awaited
PatchSettles ==
    /\ run.pc = "patch"
    /\ \/ \E e \in PatchErrors :
            /\ trace' = [ trace EXCEPT !.answer = e, !.thrown = PatchThrows(e) ]
            /\ run' = [ run EXCEPT !.pc = "done" ]
       \/ \E response \in PatchResponses :
            LET accountObject == makeLogObject(response)
            IN IF accountObject.thrown # "none"
               THEN /\ trace' = [ trace EXCEPT !.response = response,
                                    !.thrown = [ class |-> accountObject.thrown,
                                                 status |-> 0 ] ]
                    /\ run' = [ run EXCEPT !.pc = "done" ]
               ELSE /\ trace' = [ trace EXCEPT !.response = response ]
                    /\ run' = [ run EXCEPT !.pc = "store",
                                           !.accountObject = accountObject ]
    /\ UNCHANGED <<interactionId, pageModel, alerts, rec, local, pageData>>
    /\ UNCHANGED <<appRest, logVars, bootVars, mgrVars>>

\* storeObject(this.userId, accountObject) ends; return accountObject
StoreObjectSettles ==
    /\ run.pc = "store"
    /\ rec' = rec \cup { run.accountObject }
    /\ trace' = [ trace EXCEPT !.returned = run.accountObject ]
    /\ run' = [ run EXCEPT !.pc = "done", !.accountObject = NoCanonicalObject ]
    /\ UNCHANGED <<interactionId, pageModel, alerts, local, pageData>>
    /\ UNCHANGED <<appRest, logVars, bootVars, mgrVars>>

\* makeLogObject(response), as called for an object of the log
MakeLogObject ==
    /\ run.pc \in { "idle", "done" }
    /\ \E response \in Responses :
         LET made == makeLogObject(response)
         IN /\ trace # [ ObjectTrace("makeLogObject", rec) EXCEPT
                           !.response = response, !.returned = made ]
            /\ trace' = [ ObjectTrace("makeLogObject", rec) EXCEPT
                            !.response = response, !.returned = made ]
    /\ UNCHANGED <<interactionId, pageModel, alerts, rec, local, run, pageData>>
    /\ UNCHANGED <<appRest, logVars, bootVars, mgrVars>>

InitObjects ==
    /\ AppIdle
    /\ MgrIdle
    /\ LogIdle
    /\ BootIdle
    /\ rec = {}
    /\ local = "none"
    /\ run = [ pc |-> "idle", calls |-> 0, accountObject |-> NoCanonicalObject ]
    /\ pageData = "none"
    /\ trace = ObjectTrace("none", {})

NextObjects ==
    \/ UpdateAccountObject
    \/ PatchSettles
    \/ StoreObjectSettles
    \/ MakeLogObject

SpecObjects == InitObjects /\ [][NextObjects]_vars

\* C31: updateAccountObject throws ConflictingUpdate for a PATCH that failed
\* with 409, WrongPin for 403, UnprocessableEntity for 422 and the error
\* itself for every other one; whenever it throws, the local storage is as
\* it was at the call; when it returns, the object made of the response of the
\* server is the one stored and the one returned.
C31_PatchErrorsAndStorage ==
    (trace.by = "updateAccountObject" /\ run.pc = "done") =>
        /\ trace.answer = HttpError(409) => trace.thrown.class = "ConflictingUpdate"
        /\ trace.answer = HttpError(403) => trace.thrown.class = "WrongPin"
        /\ trace.answer = HttpError(422) => trace.thrown.class = "UnprocessableEntity"
        /\ (trace.answer # NoError
              /\ trace.answer \notin { HttpError(409), HttpError(403), HttpError(422) })
             => trace.thrown = trace.answer
        /\ trace.thrown # NoError =>
             /\ rec = trace.stored
             /\ trace.returned = NoCanonicalObject
        /\ trace.thrown = NoError =>
             /\ trace.answer = NoError
             /\ trace.returned.response = trace.response
             /\ trace.returned.type = trace.response.type
             /\ rec = trace.stored \cup { trace.returned }

C31_Witness ==
    /\ trace.by = "updateAccountObject"
    /\ run.pc = "done"
    /\ run.calls = 2
    /\ trace.answer = HttpError(422)
    /\ trace.thrown.class = "UnprocessableEntity"
    /\ \E object \in rec : object.type = "AccountConfig"

\* C32: makeLogObject returns a canonical object exactly when the declared
\* type of the response is one of the eleven types of the objects of the log
\* and every embedded object declares a type of its pattern, or declares
\* none where the maker has a default; in every other case, the types of the
\* lists included, it throws WrongObjectType.
C32_OnlyLogObjectTypes ==
    trace.by = "makeLogObject" =>
        LET response == trace.response
            made == trace.returned
            embeddedMatch ==
                \/ response.slot = 0
                \/ /\ response.declared = "undefined"
                   /\ EmbeddedIn(response.type)[response.slot].hasDefault
        IN /\ made.thrown \in { "none", "WrongObjectType" }
           /\ made.thrown = "none" <=>
                (response.type \in LogObjectTypes /\ embeddedMatch)
           /\ made.thrown = "none" => made.type = response.type
           /\ response.type \in { "AccountsList", "TransfersList", "AccountV2" }
                => made.thrown = "WrongObjectType"

C32_Witness ==
    /\ trace.by = "makeLogObject"
    /\ trace.response.type = "Account"
    /\ trace.response.slot = 3
    /\ trace.response.declared = "Wallet"
    /\ trace.returned.thrown = "WrongObjectType"

----------------------------------------------------------------------------
(***************************************************************************)
(* format-amounts: stringToAmount() and amountToString().  The integers    *)
(* of the source are wider than the integers of the model checker, so a     *)
(* natural number is the sequence of its digits to the base 2^15, the      *)
(* lowest first; a Number is such a significand of at most 53 binary       *)
(* digits (2^53 itself included), a binary exponent and a sign; a bigint   *)
(* is a magnitude and a sign.  A string is the sequence of its characters. *)
(* `rec` is the string given, `pageData` the amount made of it, `trace`    *)
(* the string made of the amount.                                          *)
(***************************************************************************)
SignificandBits == 53
Int64Bits == 63          \* MAX_INT64 = (1n << 63n) - 1n
\* the largest base of which two digits multiply within the integers of the
\* model checker
Base == 2 ^ 15
LimbBits == CHOOSE k \in 1..30 : 2 ^ k = Base

RECURSIVE StripZeros(_)
StripZeros(limbs) ==
    IF limbs # << >> /\ limbs[Len(limbs)] = 0
    THEN StripZeros(SubSeq(limbs, 1, Len(limbs) - 1))
    ELSE limbs

\* limbs * k + carry, for k and carry below the base
RECURSIVE MulAdd(_, _, _)
MulAdd(limbs, k, carry) ==
    IF limbs = << >>
    THEN IF carry = 0 THEN << >> ELSE << carry >>
    ELSE LET product == limbs[1] * k + carry
         IN << product % Base >> \o MulAdd(Tail(limbs), k, product \div Base)

\* quotient and remainder of limbs by a d below the base: the digits are
\* taken from the highest down, q and r being those of the digits taken
RECURSIVE DivModFrom(_, _, _, _)
DivModFrom(limbs, d, q, r) ==
    IF limbs = << >> THEN [ q |-> StripZeros(q), r |-> r ]
    ELSE LET r2 == r * Base + limbs[Len(limbs)]
         IN DivModFrom(SubSeq(limbs, 1, Len(limbs) - 1), d,
                       << r2 \div d >> \o q, r2 % d)

DivMod(limbs, d) == DivModFrom(limbs, d, << >>, 0)

Zeros(n) == [ i \in 1..n |-> 0 ]

\* the number of the binary digits of a natural number
BitLength(limbs) ==
    IF limbs = << >> THEN 0
    ELSE (Len(limbs) - 1) * LimbBits
         + CHOOSE k \in 1..LimbBits :
              2 ^ (k - 1) <= limbs[Len(limbs)] /\ limbs[Len(limbs)] < 2 ^ k

\* the i-th binary digit, the lowest being the first
Bit(limbs, i) ==
    LET limb == (i - 1) \div LimbBits + 1
    IN IF limb > Len(limbs) THEN 0
       ELSE (limbs[limb] \div 2 ^ ((i - 1) % LimbBits)) % 2

ShiftLeft(limbs, s) ==
    IF limbs = << >> THEN << >>
    ELSE Zeros(s \div LimbBits) \o MulAdd(limbs, 2 ^ (s % LimbBits), 0)

ShiftRight(limbs, t) ==
    DivMod(SubSeq(limbs, t \div LimbBits + 1, Len(limbs)),
           2 ^ (t % LimbBits)).q

\* a number without its t lowest binary digits, the highest digit left
\* out and whether any digit below that one is set
DropLow(limbs, t) ==
    [ kept |-> ShiftRight(limbs, t),
      guard |-> IF t >= 1 THEN Bit(limbs, t) ELSE 0,
      sticky |-> \E i \in 1..(t - 1) : Bit(limbs, i) = 1 ]

Double(neg, m, e) == [ neg |-> neg, m |-> m, e |-> e ]

\* the Number nearest to limbs * 2^e, ties to the even significand;
\* `inexact` tells that the value is a little above limbs * 2^e
RoundToNearest(neg, limbs, inexact, e) ==
    LET t == BitLength(limbs) - SignificandBits
        d == DropLow(limbs, t)
        up == d.guard = 1 /\ (d.sticky \/ inexact \/ Bit(d.kept, 1) = 1)
    IN IF t <= 0 THEN Double(neg, limbs, e)
       ELSE Double(neg, IF up THEN MulAdd(d.kept, 1, 1) ELSE d.kept, e + t)

\* the Number nearest to limbs * 2^e / d, for d below 128
DivideToNearest(neg, limbs, e, d) ==
    LET s == IF BitLength(limbs) < SignificandBits + 8
             THEN SignificandBits + 8 - BitLength(limbs) ELSE 0
        division == DivMod(ShiftLeft(limbs, s), d)
    IN IF limbs = << >> THEN Double(neg, << >>, 0)
       ELSE RoundToNearest(neg, division.q, division.r # 0, e - s)

DigitOf(char) ==
    CASE char = "0" -> 0 [] char = "1" -> 1 [] char = "2" -> 2
      [] char = "3" -> 3 [] char = "4" -> 4 [] char = "5" -> 5
      [] char = "6" -> 6 [] char = "7" -> 7 [] char = "8" -> 8
      [] char = "9" -> 9

CharOf(digit) == << "0", "1", "2", "3", "4", "5", "6", "7", "8", "9" >>[digit + 1]

RECURSIVE DecimalToNat(_, _)
DecimalToNat(chars, limbs) ==
    IF chars = << >> THEN limbs
    ELSE DecimalToNat(Tail(chars), MulAdd(limbs, 10, DigitOf(chars[1])))

RECURSIVE NatToDecimal(_)
NatToDecimal(limbs) ==
    IF limbs = << >> THEN << >>
    ELSE LET division == DivMod(limbs, 10)
         IN NatToDecimal(division.q) \o << CharOf(division.r) >>

IndexOf(chars, char) ==
    IF \E i \in 1..Len(chars) : chars[i] = char
    THEN CHOOSE i \in 1..Len(chars) :
            chars[i] = char /\ \A j \in 1..(i - 1) : chars[j] # char
    ELSE 0

\* Number(s), for a string of an optional sign, digits, a point and digits:
\* the Number nearest to the value written
NumberOfString(s) ==
    LET neg == s[1] = "-"
        unsigned == IF neg THEN Tail(s) ELSE s
        point == IndexOf(unsigned, ".")
        digits == SubSeq(unsigned, 1, point - 1)
                  \o SubSeq(unsigned, point + 1, Len(unsigned))
        places == Len(unsigned) - point
    IN DivideToNearest(neg, StripZeros(DecimalToNat(digits, << >>)), 0,
                       IF places = 2 THEN 100 ELSE IF places = 1 THEN 10 ELSE 1)

\* x * amountDivisor, for an amountDivisor that is a small integer
Times(x, amountDivisor) ==
    RoundToNearest(x.neg, MulAdd(x.m, amountDivisor, 0), FALSE, x.e)

BigInt(neg, magnitude) ==
    [ neg |-> neg /\ magnitude # << >>, magnitude |-> magnitude ]

\* BigInt(Math.round(x)): the nearest integer, a half going upwards
MathRound(x) ==
    LET d == DropLow(x.m, -x.e)
        up == IF x.neg THEN d.guard = 1 /\ d.sticky ELSE d.guard = 1
    IN IF x.e >= 0 THEN BigInt(x.neg, ShiftLeft(x.m, x.e))
       ELSE BigInt(x.neg, StripZeros(IF up THEN MulAdd(d.kept, 1, 1) ELSE d.kept))

MAX_INT64 ==
    BigInt(FALSE, [ i \in 1..(Int64Bits \div LimbBits) |-> Base - 1 ]
                  \o << 2 ^ (Int64Bits % LimbBits) - 1 >>)

MIN_INT64 == BigInt(TRUE, ShiftLeft(<< 1 >>, Int64Bits))

\* stringToAmount(s, amountDivisor)
stringToAmount(s, amountDivisor) ==
    LET amount == MathRound(Times(NumberOfString(s), amountDivisor))
    IN IF amount.neg /\ BitLength(amount.magnitude) > Int64Bits THEN MIN_INT64
       ELSE IF ~amount.neg
               /\ \/ BitLength(amount.magnitude) > Int64Bits
                  \/ amount.magnitude = MAX_INT64.magnitude THEN MAX_INT64
       ELSE amount

\* v.toFixed(n), for n = 2 and v below 10^21: the integer nearest to
\* v * 100, the larger one of two, written with a point before its last two
\* digits
toFixed(v, n) ==
    LET scaled == MulAdd(v.m, 100, 0)
        d == DropLow(scaled, -v.e)
        nearest == IF v.e >= 0 THEN ShiftLeft(scaled, v.e)
                   ELSE IF d.guard = 1 THEN MulAdd(d.kept, 1, 1) ELSE d.kept
        written == NatToDecimal(StripZeros(nearest))
        padded == IF Len(written) < n + 1
                  THEN [ i \in 1..(n + 1 - Len(written)) |-> "0" ] \o written
                  ELSE written
    IN (IF v.neg /\ v.m # << >> THEN << "-" >> ELSE << >>)
       \o SubSeq(padded, 1, Len(padded) - n) \o << "." >>
       \o SubSeq(padded, Len(padded) - n + 1, Len(padded))

\* s.match(/^0*([\s\S]*)$/)[1]
RECURSIVE removeLeadingZeroes(_)
removeLeadingZeroes(s) ==
    IF s # << >> /\ s[1] = "0" THEN removeLeadingZeroes(Tail(s)) ELSE s

\* scientificToRegular(scientific), for a string without an exponent part
scientificToRegular(scientific) ==
    LET signed == scientific[1] \in { "-", "+" }
        sign == IF signed /\ scientific[1] = "-" THEN << "-" >> ELSE << >>
        mantissa0 == IF signed THEN Tail(scientific) ELSE scientific
        decimalPointIndex == IndexOf(mantissa0, ".")
        e == IF decimalPointIndex > 0
             THEN 0 - (Len(mantissa0) - decimalPointIndex) ELSE 0
        mantissa == IF decimalPointIndex > 0
                    THEN removeLeadingZeroes(
                             SubSeq(mantissa0, 1, decimalPointIndex - 1)
                             \o SubSeq(mantissa0, decimalPointIndex + 1,
                                       Len(mantissa0)))
                    ELSE mantissa0
    IN CASE e >= 0 -> sign \o mantissa \o [ i \in 1..e |-> "0" ]
         [] e < 0 /\ e > -Len(mantissa) ->
              sign \o SubSeq(mantissa, 1, Len(mantissa) + e) \o << "." >>
              \o SubSeq(mantissa, Len(mantissa) + e + 1, Len(mantissa))
         [] OTHER ->
              sign \o << "0", "." >>
              \o [ i \in 1..(-Len(mantissa) - e) |-> "0" ] \o mantissa

\* amountToString(value, amountDivisor, decimalPlaces), decimalPlaces >= 0
amountToString(value, amountDivisor, decimalPlaces) ==
    LET number == RoundToNearest(value.neg, value.magnitude, FALSE, 0)
        v == DivideToNearest(number.neg, number.m, number.e, amountDivisor)
    IN scientificToRegular(toFixed(v, decimalPlaces))

\* the strings given: a sign or none, an integer part without superfluous
\* zeros, a point and two digits
IntegerParts ==
    { << "0" >>, << "1", "2" >>,
      << "2", "2", "5", "1", "7", "9", "9", "8", "1", "3", "6", "8", "5", "2" >>,
      << "4", "5", "0", "3", "5", "9", "9", "6", "2", "7", "3", "7", "0", "4" >>,
      << "7", "0", "3", "6", "8", "7", "4", "4", "1", "7", "7", "6", "6", "4" >>,
      << "9", "0", "0", "7", "1", "9", "9", "2", "5", "4", "7", "4", "0", "9" >>,
      << "9", "2", "2", "3", "3", "7", "2", "0", "3", "6", "8", "5", "4", "7",
         "7", "5", "8" >> }

FractionParts ==
    { << "0", "0" >>, << "0", "1" >>, << "0", "6" >>, << "3", "4" >>,
      << "5", "7" >>, << "9", "3" >> }

\* the value of s times 100
Hundredths(s) ==
    StripZeros(DecimalToNat(
        SelectSeq(s, LAMBDA char : char \notin { "-", "." }), << >>))

\* the value of s times 100 is strictly within MIN_INT64 .. MAX_INT64
WithinInt64(s) ==
    /\ BitLength(Hundredths(s)) <= Int64Bits
    /\ Hundredths(s) # MAX_INT64.magnitude

AmountStrings ==
    { s \in { sign \o int \o << "." >> \o fraction :
                sign \in { << >>, << "-" >> }, int \in IntegerParts,
                fraction \in FractionParts } : WithinInt64(s) }

NoAmount == BigInt(FALSE, << >>)

\* stringToAmount(s, 100) is called
StringToAmount ==
    /\ run = "given"
    /\ run' = "amount"
    /\ pageData' = stringToAmount(rec, local.amountDivisor)
    /\ UNCHANGED <<interactionId, pageModel, alerts, rec, local, trace>>
    /\ UNCHANGED <<appRest, logVars, bootVars, mgrVars>>

\* amountToString(amount, 100, 2) is called
AmountToString ==
    /\ run = "amount"
    /\ run' = "string"
    /\ trace' = amountToString(pageData, local.amountDivisor,
                               local.decimalPlaces)
    /\ UNCHANGED <<interactionId, pageModel, alerts, rec, local, pageData>>
    /\ UNCHANGED <<appRest, logVars, bootVars, mgrVars>>

InitAmounts ==
    /\ AppIdle
    /\ MgrIdle
    /\ LogIdle
    /\ BootIdle
    /\ rec \in AmountStrings
    /\ local = [ amountDivisor |-> 100, decimalPlaces |-> 2 ]
    /\ run = "given"
    /\ pageData = NoAmount
    /\ trace = << >>

NextAmounts ==
    \/ StringToAmount
    \/ AmountToString

SpecAmounts == InitAmounts /\ [][NextAmounts]_vars

\* C33: for amountDivisor 100 and decimalPlaces 2, the string made of the
\* amount made of s is s again, for every s of two fraction digits and no
\* superfluous zeros whose value times 100 is strictly within the range of
\* int64.
C33_RoundTrip ==
    run = "string" => trace = rec

\* The strings whose hundredths are below 2^51, where the error of the two
\* roundings of a Number stays below a half, do come back, a negative zero
\* excepted.
RoundTripOfSmallAmounts ==
    (run = "string" /\ BitLength(Hundredths(rec)) <= 51
        /\ ~(rec[1] = "-" /\ Hundredths(rec) = << >>)) => trace = rec

SmallAmountComesBack ==
    /\ run = "string"
    /\ BitLength(Hundredths(rec)) = 51
    /\ rec[1] = "-"
    /\ trace = rec

----------------------------------------------------------------------------
(***************************************************************************)
(* fetchNewLedgerEntries: the pages of an account ledger are read from the *)
(* newest entry down, and the entries that continue the known ones         *)
(* downwards are collected until the stop entry, a hole, the end of the    *)
(* list or an error of the server.                                         *)
(***************************************************************************)
MaxEntryId == 4      \* largest ledger entry id
MaxItems == 2        \* most entries on one page
MaxPages == 2        \* most pages that the server hands out

EntryIds == 0..MaxEntryId

\* the items of a page: any entry ids, in any order
PageItems ==
    UNION { [ 1..n -> EntryIds ] : n \in 0..MaxItems }

\* the errors of server.get
LedgerErrors == { HttpError(404), HttpError(500) }

\* if (entryId >= knownEntryId) continue
AlreadyKnown(entryId, knownEntryId) == entryId >= knownEntryId

\* if (knownEntryId - entryId !== 1n) break
MissingEntries(entryId, knownEntryId) == knownEntryId - entryId # 1

\* if (entryId <= stopEntryId) break
UninterestingMutTakesStopEntry(entryId, stopEntryId) == entryId < stopEntryId

Uninteresting(entryId, stopEntryId) == entryId <= stopEntryId

\* if (stopEntryId + 1n < knownEntryId) { ... }
SomethingToFetch(knownEntryId, stopEntryId) == stopEntryId + 1 < knownEntryId

\* catch (e): if (e instanceof HttpError && e.status === 404) {} else throw e
FetchThrows(e) == IF e = HttpError(404) THEN NoError ELSE e

\* The body of `for await (const entry of iterLedgerEntries(...))` over the
\* items of one page, from the i-th: the loop's knownEntryId and
\* newLedgerEntries, the ids of the entries that its body has passed with
\* continue or push, and the entry at which it has left with break.
RECURSIVE ScanItems(_, _, _, _)
ScanItems(loop, stopEntryId, pageItems, i) ==
    IF i > Len(pageItems) THEN loop
    ELSE LET entryId == pageItems[i]
             taken == [ loop EXCEPT !.yielded = @ \cup { entryId } ]
             break == [ loop EXCEPT !.broke = TRUE, !.stoppedAt = entryId ]
         IN IF AlreadyKnown(entryId, loop.knownEntryId)
            THEN ScanItems(taken, stopEntryId, pageItems, i + 1)
            ELSE IF MissingEntries(entryId, loop.knownEntryId)
            THEN break
            ELSE IF Uninteresting(entryId, stopEntryId)
            THEN break
            ELSE ScanItems([ taken EXCEPT !.newLedgerEntries = Append(@, entryId),
                                          !.knownEntryId = entryId ],
                           stopEntryId, pageItems, i + 1)

NoLedgerEntries == << -1 >>

\* A call of fetchNewLedgerEntries: where it is, its loop variables, the
\* requests it has made, and what it has returned or thrown.
LedgerCall(pc, knownEntryId) ==
    [ pc |-> pc, knownEntryId |-> knownEntryId, newLedgerEntries |-> << >>,
      requests |-> 0, returned |-> NoLedgerEntries, thrown |-> NoError ]

\* The ids that the body of the loop has passed, whether and at which
\* entry the loop was left with break, and the last answer of the server.
LedgerTrace ==
    [ yielded |-> {}, broke |-> FALSE, stoppedAt |-> -1, answer |-> NoError ]

\* fetchNewLedgerEntries(server, firstUri, knownEntryId, stopEntryId) up to
\* the first `await server.get` of iterPages, or to its return
FetchNewLedgerEntries ==
    /\ run.pc = "given"
    /\ IF SomethingToFetch(rec.knownEntryId, rec.stopEntryId)
       THEN run' = [ run EXCEPT !.pc = "get" ]
       ELSE run' = [ run EXCEPT !.pc = "done",
                                !.returned = run.newLedgerEntries ]
    /\ UNCHANGED <<interactionId, pageModel, alerts, rec, local, pageData, trace>>
    /\ UNCHANGED <<appRest, logVars, bootVars, mgrVars>>

\* iterPages resumes after `await server.get(next, options)` with a page,
\* and the loop of fetchNewLedgerEntries takes the items of the page
ServerGetSettles ==
    /\ run.pc = "get"
    /\ \E pageItems \in PageItems,
          hasNext \in IF local + 1 < MaxPages THEN BOOLEAN ELSE { FALSE } :
         LET start == [ knownEntryId |-> run.knownEntryId,
                        newLedgerEntries |-> run.newLedgerEntries,
                        yielded |-> trace.yielded, broke |-> FALSE,
                        stoppedAt |-> -1 ]
             loop == ScanItems(start, rec.stopEntryId, pageItems, 1)
             over == loop.broke \/ ~hasNext
         IN /\ run' = [ run EXCEPT
                          !.pc = IF over THEN "done" ELSE "get",
                          !.knownEntryId = loop.knownEntryId,
                          !.newLedgerEntries = loop.newLedgerEntries,
                          !.requests = @ + 1,
                          !.returned = IF over THEN loop.newLedgerEntries ELSE @ ]
            /\ trace' = [ trace EXCEPT !.yielded = loop.yielded,
                                       !.broke = loop.broke,
                                       !.stoppedAt = loop.stoppedAt ]
    /\ local' = local + 1
    /\ UNCHANGED <<interactionId, pageModel, alerts, rec, pageData>>
    /\ UNCHANGED <<appRest, logVars, bootVars, mgrVars>>

\* `await server.get(next, options)` throws: the catch of
\* fetchNewLedgerEntries
ServerGetThrows ==
    /\ run.pc = "get"
    /\ \E e \in LedgerErrors :
         LET thrown == FetchThrows(e)
         IN /\ run' = [ run EXCEPT
                          !.pc = "done",
                          !.requests = @ + 1,
                          !.thrown = thrown,
                          !.returned = IF thrown = NoError
                                       THEN run.newLedgerEntries ELSE @ ]
            /\ trace' = [ trace EXCEPT !.answer = e ]
    /\ UNCHANGED <<interactionId, pageModel, alerts, rec, local, pageData>>
    /\ UNCHANGED <<appRest, logVars, bootVars, mgrVars>>

InitLedger ==
    /\ AppIdle
    /\ MgrIdle
    /\ LogIdle
    /\ BootIdle
    /\ rec \in [ knownEntryId : EntryIds, stopEntryId : EntryIds ]
    /\ local = 0
    /\ run = LedgerCall("given", rec.knownEntryId)
    /\ pageData = "none"
    /\ trace = LedgerTrace

NextLedger ==
    \/ FetchNewLedgerEntries
    \/ ServerGetSettles
    \/ ServerGetThrows

SpecLedger == InitLedger /\ [][NextLedger]_vars

\* the call is over and has returned
LedgerReturned == run.pc = "done" /\ run.thrown = NoError

\* C40: fetchNewLedgerEntries returns the entries knownEntryId-1,
\* knownEntryId-2, ... in this order and without a hole, each of them above
\* stopEntryId; every entry that the loop took from the iterator before it
\* stopped is one of these or an entry already known, and the entry at which
\* it stopped with break is below the last known one and is not the next id
\* or is not above stopEntryId; with stopEntryId + 1 >= knownEntryId it makes
\* no request; and when the server answers 404 it returns what it has
\* collected so far instead of throwing.
C40_ConsecutiveNewEntriesAboveStop ==
    run.pc = "done" =>
        LET n == Len(run.newLedgerEntries)
        IN /\ \A i \in 1..n :
                /\ run.newLedgerEntries[i] = rec.knownEntryId - i
                /\ run.newLedgerEntries[i] > rec.stopEntryId
           /\ run.knownEntryId = rec.knownEntryId - n
           /\ \A entryId \in trace.yielded : entryId >= run.knownEntryId
           /\ \A i \in 1..n : run.newLedgerEntries[i] \in trace.yielded
           /\ trace.broke =>
                /\ trace.stoppedAt < run.knownEntryId
                /\ \/ trace.stoppedAt # run.knownEntryId - 1
                   \/ trace.stoppedAt <= rec.stopEntryId
           /\ rec.stopEntryId + 1 >= rec.knownEntryId =>
                /\ run.requests = 0
                /\ run.returned = << >>
           /\ trace.answer = HttpError(404) =>
                /\ run.thrown = NoError
                /\ run.returned = run.newLedgerEntries
           /\ run.thrown = NoError => run.returned = run.newLedgerEntries
           /\ run.thrown # NoError =>
                /\ run.thrown = trace.answer
                /\ run.returned = NoLedgerEntries

\* Two entries were collected from the first page, and the request of the
\* second page was answered with 404: the two entries are returned.
C40_Witness ==
    /\ LedgerReturned
    /\ trace.answer = HttpError(404)
    /\ run.requests = 2
    /\ Len(run.returned) = 2
    /\ rec.stopEntryId = 0

====
